---- MODULE Spec2Model ----
(***************************************************************************)
(* Model of the nightly-runner orchestration engine (src/nightlies.py):    *)
(* the branch planner (Repository.plan, Branch.plan, assign_badges) and    *)
(* the run coordinator (NightlyRunner.run with its lock file), of the      *)
(* per-branch job script (src/runner.py, run_branch) and of the status     *)
(* page's read of the lock file (src/server.py, load).                     *)
(*                                                                         *)
(* Commit hashes are modelled as the numbers 1..MaxCommit; the empty       *)
(* string that config.get("commit", "") yields for a missing key is 0.     *)
(* Branch names of the planner are the numbers 1..n in discovery order     *)
(* (Repository.branches is an insertion-ordered dict keyed by name).       *)
(***************************************************************************)
EXTENDS Integers, Sequences, FiniteSets, TLC

\* ------------------------------------------------------------------ bounds
MaxBranches == 3

MaxCommit == 2

\* Exceptions (external-command and OS-level errors) injected over all cycles.
MaxFaults == 1

\* ------------------------------------------------------------ sequences
\* x in list
InSeq(x, s) == \E i \in 1..Len(s) : s[i] = x

\* Index of the first occurrence of x in s (0 when absent).
FirstIndex(x, s) ==
    IF InSeq(x, s) THEN CHOOSE i \in 1..Len(s) : s[i] = x /\ \A j \in 1..(i-1) : s[j] # x
    ELSE 0

\* list.remove(x): drops the first occurrence of x.
ListRemove(s, x) ==
    LET k == FirstIndex(x, s)
    IN  [i \in 1..(Len(s) - 1) |-> IF i < k THEN s[i] ELSE s[i + 1]]

\* list.insert(0, x)
ListInsertFront(s, x) == <<x>> \o s

\* ------------------------------------------------------------ planner
\* REPO_BADGES, in the order assign_badges walks it.
REPO_BADGES == <<"baseline", "always", "never">>

\* The empty metadata record ({}), what read_metadata leaves for a missing file.
EmptyConfig == [commit |-> 0, time |-> 0]

\* self.config.get("commit", "")
ConfigGetCommit(cfg) == cfg.commit

\* Badges of one branch after assign_badges: the REPO_BADGES fields that list
\* the branch, in REPO_BADGES order, then "main" for the configured main branch.
BadgesOf(b, conf) ==
    LET field(k) == IF b \in conf[REPO_BADGES[k]] THEN <<REPO_BADGES[k]>> ELSE <<>>
    IN  field(1) \o field(2) \o field(3) \o (IF b = conf.main THEN <<"main">> ELSE <<>>)

\* Repository.assign_badges over all known branches.
AssignBadges(brs, conf) ==
    [b \in {brs[i] : i \in 1..Len(brs)} |-> BadgesOf(b, conf)]

\* A Branch.plan that skips a branch without a stored commit.
BranchPlanSkipsNew(cfg, cur) == cfg.commit # 0 /\ cfg.commit # cur

\* Branch.plan: TRUE iff the stored commit differs from the resolved remote commit.
BranchPlan(cfg, cur) == ~(ConfigGetCommit(cfg) = cur)

\* An always step that appends without looking whether the branch is there.
PlanAlwaysAppends(run, b, bdg) == IF InSeq("always", bdg) THEN Append(run, b) ELSE run

\* A never step that spares a branch also marked always.
PlanNeverSparesAlways(run, b, bdg) ==
    IF InSeq("never", bdg) /\ ~InSeq("always", bdg) /\ InSeq(b, run)
    THEN ListRemove(run, b) ELSE run

\* One iteration of the badge loop of Repository.plan for branch b
\* (lines 466-468, 469-473 and 474-476).
PlanAlways(run, b, bdg) ==
    IF InSeq("always", bdg) /\ ~InSeq(b, run) THEN Append(run, b) ELSE run

\* A baseline step that inserts at the front without removing the branch
\* from where it is.
PlanBaselineInsertsAgain(run, b, bdg) ==
    IF InSeq("baseline", bdg) /\ run # <<>> THEN ListInsertFront(run, b) ELSE run

PlanBaseline(run, b, bdg) ==
    IF InSeq("baseline", bdg) /\ run # <<>>
    THEN ListInsertFront(IF InSeq(b, run) THEN ListRemove(run, b) ELSE run, b)
    ELSE run

PlanNever(run, b, bdg) ==
    IF InSeq("never", bdg) /\ InSeq(b, run) THEN ListRemove(run, b) ELSE run

PlanIter(run, b, bdg) ==
    PlanNever(PlanBaseline(PlanAlways(run, b, bdg), b, bdg), b, bdg)

\* The change candidates, in discovery order.
PlanCandidates(brs, cfgs, cur) ==
    SelectSeq(brs, LAMBDA b : BranchPlan(cfgs[b], cur[b]))

\* The badge loop from iteration i on.
RECURSIVE PlanLoop(_, _, _, _)
PlanLoop(run, brs, bdgs, i) ==
    IF i > Len(brs) THEN run
    ELSE PlanLoop(PlanIter(run, brs[i], bdgs[brs[i]]), brs, bdgs, i + 1)

\* Repository.plan as a function of the loaded repository.
RepositoryPlan(brs, bdgs, cfgs, cur, runall) ==
    IF runall THEN brs
    ELSE PlanLoop(PlanCandidates(brs, cfgs, cur), brs, bdgs, 1)

\* ------------------------------------------------------------ coordinator
\* The two run() invocations that share one lock path.
Procs == {"p1", "p2"}

\* The configured repositories, in configuration order.
Repos == <<"X", "Y">>

RepoNames == {Repos[i] : i \in 1..Len(Repos)}

\* The branches of each repository in discovery order (the configured
\* "branches" list, or the order of `git branch -r`).
RepoBranches == [r \in RepoNames |-> IF r = "X" THEN <<"main", "feat">> ELSE <<"main">>]

\* A job is a Branch object: (repository, branch name).
Jobs == UNION {{<<r, RepoBranches[r][i]>> : i \in 1..Len(RepoBranches[r])} : r \in RepoNames}

\* Badge configurations a repository section may carry.
NoBadges == [baseline |-> {}, always |-> {}, never |-> {}, main |-> "main"]

RepoConfs == {NoBadges, [NoBadges EXCEPT !.always = {"main"}, !.never = {"feat"}]}

\* self.data before the per-job keys are set; "" stands for an absent key.
InitialData(p) ==
    [pid |-> p, repo |-> "", branch |-> "", runs_done |-> -1, runs_total |-> -1,
     branch_log |-> "", branch_pid |-> ""]

NoData == [pid |-> "", repo |-> "", branch |-> "", runs_done |-> -1, runs_total |-> -1,
           branch_log |-> "", branch_pid |-> ""]

\* The lock file: missing, just created by touch() (empty), or holding a record.
NoFile == [exists |-> FALSE, written |-> FALSE, rec |-> NoData]

EmptyFile == [exists |-> TRUE, written |-> FALSE, rec |-> NoData]

\* NightlyRunner.save: json.dump(self.data) into the lock file.
SavedFile(d) == [exists |-> TRUE, written |-> TRUE, rec |-> d]

\* One token of a JSON text: a brace, or a key with its value.
Tok(k, v) == [k |-> k, v |-> v]

\* json.dump of a metadata record: the keys the record holds, between braces.
JsonDump(cfg) ==
    <<Tok("{", 0)>>
    \o (IF cfg.commit # 0 THEN <<Tok("commit", cfg.commit)>> ELSE <<>>)
    \o (IF cfg.time # 0 THEN <<Tok("time", cfg.time)>> ELSE <<>>)
    \o <<Tok("}", 0)>>

\* TRUE iff json.load accepts the text: an opening brace, keys, a closing brace.
JsonWellFormed(text) ==
    /\ Len(text) >= 2
    /\ text[1].k = "{"
    /\ text[Len(text)].k = "}"
    /\ \A i \in 2..(Len(text) - 1) : text[i].k \in {"commit", "time"}

\* The value of key k in a well-formed text (0 when the key is absent).
JsonGet(text, k) ==
    IF \E i \in 1..Len(text) : text[i].k = k
    THEN text[CHOOSE i \in 1..Len(text) : text[i].k = k].v
    ELSE 0

\* json.load: the record of a well-formed text, JSONDecodeError otherwise.
JsonLoad(text) ==
    IF JsonWellFormed(text)
    THEN [error |-> "", value |-> [commit |-> JsonGet(text, "commit"), time |-> JsonGet(text, "time")]]
    ELSE [error |-> "JSONDecodeError", value |-> [commit |-> 0, time |-> 0]]

\* The first n tokens of a text: what an interrupted write leaves on disk.
Truncate(text, n) == SubSeq(text, 1, n)

\* A branch metadata file that does not exist.
NoMetadata == [exists |-> FALSE, text |-> <<>>]

\* A metadata file whose write was interrupted after n tokens.
TruncatedMetadata(cfg, n) == [exists |-> TRUE, text |-> Truncate(JsonDump(cfg), n)]

\* A read_metadata that keeps whatever keys a text that fails to parse holds.
ReadMetadataLenient(file) ==
    [commit |-> JsonGet(file.text, "commit"), time |-> JsonGet(file.text, "time")]

\* Branch.read_metadata: a missing file and a file that fails to parse both
\* read as the empty record.
ReadMetadata(file) ==
    IF ~file.exists THEN EmptyConfig
    ELSE IF JsonLoad(file.text).error = "JSONDecodeError" THEN EmptyConfig
    ELSE JsonLoad(file.text).value

\* Branch.save_metadata: json.dump(self.config) into the metadata file.
SaveMetadata(cfg) == [exists |-> TRUE, text |-> JsonDump(cfg)]

\* info["result"] = f"*{failure}*" if failure else "success"
FormatResult(failure) == IF failure = "" THEN "success" ELSE "*" \o failure \o "*"

\* The value of `failure` Branch.run ends with, per way the job ended.
FailureOf(outcome) == IF outcome = "success" THEN "" ELSE outcome

\* Exceptions the per-repository phase catches (lines 268-275).
RepoCaught == {"CalledProcessError", "OSError"}

\* Exceptions the per-job phase catches (lines 292-294).
JobCaught == {"CalledProcessError"}

\* How the start of Branch.run (lines 567-588) can go: "ok"; an OSError before
\* the child exists (saving the record, opening the log file, Popen); or, not
\* in dry-run, an OSError from saving the record after Popen ("orphan": the
\* child is alive and nothing kills it).
SpawnOutcomes(dry) == IF dry THEN {"ok", "OSError"} ELSE {"ok", "OSError", "orphan"}

\* How process.wait(timeout=to) followed by process.poll() ends (lines 590-592).
ChildOutcomes == {"exit0", "exitN", "timeout"}

\* How an external command run through NightlyRunner.exec ends (line 185,
\* check=True): it returns, exits non-zero, or cannot be started.
ExecOutcomes == {"ok", "CalledProcessError", "OSError"}

\* The exception that leaves the try body of lines 589-592 ("" for none).
WaitRaises(child) ==
    IF child = "timeout" THEN "TimeoutExpired"
    ELSE IF child = "exitN" THEN "CalledProcessError"
    ELSE ""

\* The finally clause of lines 593-595: an exception raised by the
\* `systemctl stop` command replaces the one in flight.
FinallyRaises(pending, stop) == IF stop = "ok" THEN pending ELSE stop

\* The except/else clauses of lines 597-605: the value of `failure`, or
\* "raise" for an exception they do not catch.
FailureKind(exc) ==
    IF exc = "TimeoutExpired" THEN "timeout"
    ELSE IF exc = "CalledProcessError" THEN "failure"
    ELSE IF exc = "" THEN "success"
    ELSE "raise"

\* The way Branch.run ends: a result kind ("success", "failure", "timeout")
\* when it returns, the class of the exception when one leaves it.  In
\* dry-run neither the child nor the later rev-parse is run.
BranchRun(dry, spawn, child, stop, rev) ==
    IF spawn # "ok" THEN "OSError"
    ELSE IF dry THEN "success"
    ELSE LET exc == FinallyRaises(WaitRaises(child), stop)
         IN  IF FailureKind(exc) = "raise" THEN exc
             ELSE IF rev # "ok" THEN rev
             ELSE FailureKind(exc)

\* Number of the given command outcomes that are failures.
FaultCount(outs) == Len(SelectSeq(outs, LAMBDA o : o # "ok"))

\* A process.kill() that leaves the child running.
ProcessKillNoop(alive, c) == alive

\* process.kill() (line 594): the child is no longer running afterwards.
ProcessKill(alive, c) == alive \ {c}

\* A record whose progress counter counts the job about to run as done.
JobRecordCountsCurrent(d, job, k, n) ==
    [d EXCEPT !.repo = job[1], !.branch = job[2], !.runs_done = k, !.runs_total = n]

\* self.data as run() sets it before job number k (1-based) of n
\* (lines 285-288; runs_done is the enumerate index, which starts at 0).
JobRecord(d, job, k, n) ==
    [d EXCEPT !.repo = job[1], !.branch = job[2], !.runs_done = k - 1, !.runs_total = n]

\* A last-job test that holds for every job.
LastOfRepoEveryJob(pl, i) == TRUE

\* The jobs (as <<repo, branch>>) of one repository's runnable list.
JobsOf(r, run) == [i \in 1..Len(run) |-> <<r, run[i]>>]

\* TRUE iff job i is the last job of its repository in the plan (line 296).
LastOfRepo(pl, i) == \A k \in 1..Len(pl) : pl[k][1] = pl[i][1] => k <= i

\* ------------------------------------------------------------ state
VARIABLES
    branches,        \* Repository.branches: branch names in discovery order
    repoconf,        \* the repository's configuration section (badge name lists, main)
    badges,          \* Branch.badges per branch
    config,          \* Branch.config per branch (the stored metadata record)
    remote,          \* commit of origin/<branch> in the worktree
    current_commit,  \* Branch.current_commit per branch (0 before Branch.plan)
    run_all,         \* Repository.run_all
    runnable,        \* Repository.runnable
    planpc,          \* "start" before plan(), "done" after it
    \* --- shared by the coordinator processes (filesystem, configuration)
    pid_file,        \* the lock file: NoFile, EmptyFile or SavedFile(record)
    meta,            \* per job, the branch metadata file
    origin,          \* per job, the commit of origin/<branch> after the last fetch
    clock,           \* time.time(), advanced by every metadata write of Branch.run
    faults,          \* exceptions raised so far by external commands and the OS
    dryrun,          \* NightlyRunner.dryrun
    wait,            \* the "wait" option of the DEFAULT section
    slack_token,     \* per repository, whether a slack channel is configured
    rconf,           \* per repository, its badge configuration
    children,        \* the job child processes that are running, as <<process, job>>
    observed,        \* "JSONDecodeError" once a load_pid() of the status server raised it
    \* --- per coordinator process (in-memory state of one run())
    pc,              \* position of run()
    data,            \* NightlyRunner.data
    ri,              \* index of the repository the per-repository loop is at
    ji,              \* index (1-based) of the job the per-job loop is at
    plan,            \* the combined job list
    rrunnable,       \* Repository.runnable per repository
    bconfig,         \* Branch.config per job
    fatalerror,      \* Repository.fatalerror per repository ("" for None)
    info,            \* Branch.info["result"] per job ("" when unset)
    posts,           \* notifications handed to slack.send, in order
    synced,          \* per repository, how its sync-and-plan step ended ("" = not yet)
    spawn,           \* how the start of the current Branch.run went ("" outside a job)
    waited,          \* per job, how the wait for its child ended ("" = not waited for)
    postcalls,       \* per repository, the number of calls of Repository.post
    \* --- the stateless job runner (runner.py), one invocation for one branch
    runner_pc,       \* position of main() / run_branch
    argv_len,        \* len(sys.argv)
    metadata_file,   \* bc.metadata_file
    remote_commit,   \* commit of origin/<branch> in the branch's worktree
    out,             \* `out`: the commit rev-parse printed (0 before)
    now,             \* time.time() when the metadata is written
    job_result,      \* the job command: "none", "running" or how it ended
    branch_info,     \* info["result"] ("" when unset)
    info_time,       \* whether info holds "time"
    slack_output,    \* whether a slack output is configured for the repository
    slack_api,       \* whether the output uses the API (token and channel) or a webhook
    slack_posts,     \* the notifications SlackOutput.post handed to _send, in order
    delivered,       \* the notifications the service accepted, in order
    warnings,        \* SlackOutput.warnings (the keys)
    base_url,        \* whether bc.base_url is configured
    report_dir,      \* bc.report_dir: "none" (not configured), "absent", "empty", "files"
    reports_tree,    \* what was published into the reports tree ("" nothing)
    transport,       \* how the request of the final post ended ("" = not sent)
    sstat,           \* how the sstat query ended ("" = not run)
    signalled,       \* whether handle_sigterm has run
    ended,           \* how the process ended: "return", or the exception ("" while it runs)
    exit_status,     \* exit status of the runner process (-1 while it runs)
    \* --- Branch.run seen from the job: result channel, report directory, info map
    job_pc,          \* position of the job loop: "spawn", "child", "done"
    job_k,           \* number of the job the loop is at
    job_dry,         \* NightlyRunner.dryrun
    info_file,       \* the lines of the result channel's backing file
    said,            \* per job, the keys its child has reported through the channel
    binfo,           \* per job, Branch.info (url, img, result; "" when unset)
    wt_report,       \* per job, the report directory in its worktree
    reports_pub,     \* the directories published into the reports tree, as <<job, content>>
    spawned,         \* the jobs for which a child process was started
    job_meta,        \* per job, the branch's metadata file
    repo_warnings,   \* Repository.warnings: per key the message ("" when the key is absent)
    warned,          \* the warnings raised in this cycle, as <<key, job>>
    \* --- one repository's root directory: Repository.load, clean, read, plan
    repo_pc,         \* position in the cycle: "clean", "load", "plan", "run", "served"
    repo_dry,        \* NightlyRunner.dryrun
    clean_cfg,       \* the section's "clean" setting (getboolean, default yes)
    known,           \* Repository.branches: the branch names, in discovery order
    rootdir,         \* the entries of the repository root (file names)
    ignored,         \* the names of the configured "ignore" paths
    deleted,         \* the entries the last clean() has deleted
    squeue,          \* the branches with a pending job in the batch scheduler's queue
    repo_badges,     \* per known branch, Branch.badges after assign_badges
    repo_runnable,   \* Repository.runnable after plan()
    submitted,       \* the branches whose job this cycle or a run-now request started
    \* --- two branches of one repository and their file names
    names,           \* the two branch names, as character sequences
    filenames,       \* per branch, Branch.filename (<<>> before Branch.__init__)
    parsed           \* Repository.read: the names parsed back from the worktree directories

planvars == <<branches, repoconf, badges, config, remote, current_commit,
              run_all, runnable, planpc>>

sharedvars == <<pid_file, meta, origin, clock, faults, dryrun, wait, slack_token, rconf,
                children, observed>>

procvars == <<pc, data, ri, ji, plan, rrunnable, bconfig, fatalerror, info, posts, synced,
              spawn, waited, postcalls>>

runnervars == <<runner_pc, argv_len, metadata_file, remote_commit, out, now, job_result,
                branch_info, info_time, slack_output, slack_api, slack_posts, delivered,
                warnings, base_url, report_dir, reports_tree, transport, sstat, signalled,
                ended, exit_status>>

jobvars == <<job_pc, job_k, job_dry, info_file, said, binfo, wt_report, reports_pub,
             spawned, job_meta, repo_warnings, warned>>

repovars == <<repo_pc, repo_dry, clean_cfg, known, rootdir, ignored, deleted, squeue, repo_badges,
              repo_runnable, submitted>>

namevars == <<names, filenames, parsed>>

sidevars == <<jobvars, repovars, namevars>>

vars == <<planvars, sharedvars, procvars, runnervars, sidevars>>

BranchSet == {branches[i] : i \in 1..Len(branches)}

\* The in-memory state of a process that is not inside run().
FreshRunnable == [r \in RepoNames |-> <<>>]

FreshConfig == [j \in Jobs |-> EmptyConfig]

FreshError == [r \in RepoNames |-> ""]

FreshInfo == [j \in Jobs |-> ""]

FreshCalls == [r \in RepoNames |-> 0]

\* The record a cycle interrupted while writing a metadata file was saving.
InterruptedRecord == [commit |-> 1, time |-> 1]

\* The metadata files before the first cycle: none, or the one of X/main left
\* truncated after n tokens by an interrupted write.
InitialMetadata ==
    {[j \in Jobs |-> NoMetadata]} \cup
    {[j \in Jobs |-> IF j = <<"X", "main">> THEN TruncatedMetadata(InterruptedRecord, n)
                                            ELSE NoMetadata] : n \in 0..2}

\* The coordinator before any run() has started.
CoordInit ==
    /\ pid_file = NoFile
    /\ meta \in InitialMetadata
    /\ children = {}
    /\ observed = ""
    /\ origin = [j \in Jobs |-> 0]
    /\ clock = 1
    /\ faults = 0
    /\ dryrun \in BOOLEAN
    /\ wait \in BOOLEAN
    /\ \E token \in BOOLEAN : slack_token = [r \in RepoNames |-> token]
    /\ \E conf \in RepoConfs : rconf = [r \in RepoNames |-> conf]
    /\ pc = [p \in Procs |-> "start"]
    /\ data = [p \in Procs |-> NoData]
    /\ ri = [p \in Procs |-> 0]
    /\ ji = [p \in Procs |-> 0]
    /\ plan = [p \in Procs |-> <<>>]
    /\ rrunnable = [p \in Procs |-> FreshRunnable]
    /\ bconfig = [p \in Procs |-> FreshConfig]
    /\ fatalerror = [p \in Procs |-> FreshError]
    /\ info = [p \in Procs |-> FreshInfo]
    /\ posts = [p \in Procs |-> <<>>]
    /\ synced = [p \in Procs |-> FreshError]
    /\ spawn = [p \in Procs |-> ""]
    /\ waited = [p \in Procs |-> FreshInfo]
    /\ postcalls = [p \in Procs |-> FreshCalls]

\* The planner variables while only the coordinator is studied.
PlanIdle ==
    /\ branches = <<>>
    /\ repoconf = NoBadges
    /\ badges = <<>>
    /\ config = <<>>
    /\ remote = <<>>
    /\ current_commit = <<>>
    /\ run_all = FALSE
    /\ runnable = <<>>
    /\ planpc = "idle"

\* The coordinator variables while only the planner is studied.
CoordIdle ==
    /\ pid_file = NoFile
    /\ meta = [j \in Jobs |-> NoMetadata]
    /\ children = {}
    /\ observed = ""
    /\ origin = [j \in Jobs |-> 0]
    /\ clock = 1
    /\ faults = 0
    /\ dryrun = FALSE
    /\ wait = FALSE
    /\ slack_token = [r \in RepoNames |-> FALSE]
    /\ rconf = [r \in RepoNames |-> NoBadges]
    /\ pc = [p \in Procs |-> "idle"]
    /\ data = [p \in Procs |-> NoData]
    /\ ri = [p \in Procs |-> 0]
    /\ ji = [p \in Procs |-> 0]
    /\ plan = [p \in Procs |-> <<>>]
    /\ rrunnable = [p \in Procs |-> FreshRunnable]
    /\ bconfig = [p \in Procs |-> FreshConfig]
    /\ fatalerror = [p \in Procs |-> FreshError]
    /\ info = [p \in Procs |-> FreshInfo]
    /\ posts = [p \in Procs |-> <<>>]
    /\ synced = [p \in Procs |-> FreshError]
    /\ spawn = [p \in Procs |-> ""]
    /\ waited = [p \in Procs |-> FreshInfo]
    /\ postcalls = [p \in Procs |-> FreshCalls]

\* The runner variables while the runner is not studied.
RunnerIdle ==
    /\ runner_pc = "idle"
    /\ argv_len = 0
    /\ metadata_file = NoMetadata
    /\ remote_commit = 0
    /\ out = 0
    /\ now = 0
    /\ job_result = "none"
    /\ branch_info = ""
    /\ info_time = FALSE
    /\ slack_output = FALSE
    /\ slack_api = FALSE
    /\ slack_posts = <<>>
    /\ delivered = <<>>
    /\ warnings = {}
    /\ base_url = FALSE
    /\ report_dir = "none"
    /\ reports_tree = ""
    /\ transport = ""
    /\ sstat = ""
    /\ signalled = FALSE
    /\ ended = ""
    /\ exit_status = -1

\* The branches whose jobs one cycle runs, in plan order.
JobBranches == <<"main", "feat">>

JobNumbers == 1..Len(JobBranches)

\* Branch.info of a Branch object that has not run (line 514).
NoInfo == [url |-> "", img |-> "", result |-> ""]

\* The keys Branch.run raises warnings under (lines 637 and 674).
WarningKinds == {"report-size", "log-size"}

\* Repository.warnings of a repository without warnings (line 337).
NoWarnings == [key \in WarningKinds |-> ""]

\* The job variables while Branch.run's channel and report handling are
\* not studied.
JobIdle ==
    /\ job_pc = "idle"
    /\ job_k = 0
    /\ job_dry = FALSE
    /\ info_file = <<>>
    /\ said = [k \in JobNumbers |-> {}]
    /\ binfo = [k \in JobNumbers |-> NoInfo]
    /\ wt_report = [k \in JobNumbers |-> "none"]
    /\ reports_pub = {}
    /\ spawned = {}
    /\ job_meta = [k \in JobNumbers |-> NoMetadata]
    /\ repo_warnings = NoWarnings
    /\ warned = {}

\* str.replace(pat, rep) on a name given as the sequence of its characters:
\* the occurrences of pat are replaced from the left, without overlap.
RECURSIVE StrReplace(_, _, _)
StrReplace(str, pat, new) ==
    IF Len(str) < Len(pat) THEN str
    ELSE IF SubSeq(str, 1, Len(pat)) = pat
         THEN new \o StrReplace(SubSeq(str, Len(pat) + 1, Len(str)), pat, new)
         ELSE <<Head(str)>> \o StrReplace(Tail(str), pat, new)

\* Branch.escape_filename and Branch.parse_filename.
EscapeFilename(name) ==
    StrReplace(StrReplace(name, <<"%">>, <<"_", "2", "5">>), <<"/">>, <<"_", "2", "f">>)

ParseFilename(filename) ==
    StrReplace(StrReplace(filename, <<"_", "2", "f">>, <<"/">>), <<"_", "2", "5">>, <<"%">>)

\* Branch.dir and Branch.lastcommit, as entry names of the repository root.
BranchDir(b) == EscapeFilename(b)

LastCommit(b) == EscapeFilename(b) \o <<".json">>

\* Repository.checkout and Repository.status.
Checkout == <<".checkout">>

Status == <<".status">>

\* The branch names of the repository's remote over time; OldBranch has
\* been deleted from the remote and may have left its worktree behind.
MainBranch == <<"m">>

FeatBranch == <<"f", "/", "%">>

OldBranch == <<"o">>

\* The values Repository.branches takes (names in discovery order).
KnownOptions == {<<MainBranch>>, <<MainBranch, FeatBranch>>, <<FeatBranch>>}

\* A directory of caches the configuration may name under "ignore", and a
\* file nobody expects.
Cache == <<"cache">>

Junk == <<"junk">>

\* The names that are directories when they exist (Path.is_dir).
Directories == {Checkout, Cache} \cup {BranchDir(b) : b \in {MainBranch, FeatBranch, OldBranch}}

\* The names worktrees have in the repository root.
WorktreeDirs == {BranchDir(b) : b \in {MainBranch, FeatBranch, OldBranch}}

\* The worktrees in the root whose branch is no longer known.
StaleWorktrees(dir, brs) ==
    (dir \cap WorktreeDirs) \ {BranchDir(brs[i]) : i \in 1..Len(brs)}

\* What the repository root may hold besides the checkout and the status.
RootEntries ==
    {Cache, Junk} \cup {BranchDir(b) : b \in {MainBranch, FeatBranch, OldBranch}}
                  \cup {LastCommit(b) : b \in {MainBranch, FeatBranch, OldBranch}}

\* The repository section's badge fields.
RepoSection == [baseline |-> {}, always |-> {FeatBranch}, never |-> {}, main |-> MainBranch]

\* Repository.ignored_files (lines 328-331).
IgnoredFiles(ign) == ign \cup {Checkout, Status}

\* expected_files of clean() without the metadata files.
ExpectedFilesWithoutMetadata(brs, ign) ==
    IgnoredFiles(ign) \cup {BranchDir(brs[i]) : i \in 1..Len(brs)}

\* expected_files of clean() (lines 415-417).
ExpectedFiles(brs, ign) ==
    IgnoredFiles(ign) \cup UNION {{BranchDir(brs[i]), LastCommit(brs[i])} : i \in 1..Len(brs)}

\* The entries clean() removes (lines 419-426): the unexpected ones, and
\* none in dry-run.
CleanDeletes(dir, brs, ign, dry) ==
    IF dry THEN {} ELSE {fn \in dir : fn \notin ExpectedFiles(brs, ign)}

\* Repository.read (lines 429-439): the branch names parsed back from the
\* directories of the repository root that are not ignored.
ReadBranches(dir, ign) ==
    {ParseFilename(fn) : fn \in {e \in dir : e \in Directories /\ e \notin IgnoredFiles(ign)}}

\* The repository variables while the repository root is not studied.
RepoIdle ==
    /\ repo_pc = "idle"
    /\ repo_dry = FALSE
    /\ clean_cfg = FALSE
    /\ known = <<>>
    /\ rootdir = {}
    /\ ignored = {}
    /\ deleted = {}
    /\ squeue = {}
    /\ repo_badges = <<>>
    /\ repo_runnable = <<>>
    /\ submitted = <<>>

\* The characters branch names are made of; ".json" stands for that suffix
\* as one unit.
NameChars == {"%", "/", "_", "2", "5", "f", ".json"}

MaxNameLen == 3

\* The names git accepts among the bounded ones: no slash at either end
\* and no two slashes in a row.
ValidName(n) ==
    /\ n[1] # "/"
    /\ n[Len(n)] # "/"
    /\ \A i \in 1..(Len(n) - 1) : ~(n[i] = "/" /\ n[i + 1] = "/")

BranchNames ==
    {n \in UNION {[1..k -> NameChars] : k \in 1..MaxNameLen} : ValidName(n)}

\* The name variables while file names are not studied.
NameIdle ==
    /\ names = <<>>
    /\ filenames = <<>>
    /\ parsed = {}

SideIdle == JobIdle /\ RepoIdle /\ NameIdle

\* A repository whose branches load() has discovered, with their metadata
\* read and their badges assigned; nothing is planned yet.
PlanInit ==
    /\ \E n \in 1..MaxBranches : branches = [i \in 1..n |-> i]
    /\ \E bl \in SUBSET BranchSet, al \in SUBSET BranchSet, nv \in SUBSET BranchSet :
          repoconf = [baseline |-> bl, always |-> al, never |-> nv, main |-> 1]
    /\ badges = AssignBadges(branches, repoconf)
    /\ config \in [BranchSet -> {EmptyConfig} \cup
                                 {[commit |-> c, time |-> 1] : c \in (MaxCommit - 1)..MaxCommit}]
    /\ remote = [b \in BranchSet |-> MaxCommit]
    /\ current_commit = [b \in BranchSet |-> 0]
    /\ run_all = FALSE
    /\ runnable = <<>>
    /\ planpc = "start"
    /\ CoordIdle
    /\ RunnerIdle
    /\ SideIdle

\* load() lines 375-381: the repository's apt packages have updates, so
\* the repository is flagged run-all.
AptUpdates ==
    /\ planpc = "start"
    /\ ~run_all
    /\ run_all' = TRUE
    /\ UNCHANGED <<branches, repoconf, badges, config, remote, current_commit, runnable, planpc>>
    /\ UNCHANGED <<sharedvars, procvars, runnervars, sidevars>>

\* Repository.plan for a repository flagged run-all (lines 459-461).
PlanRunAll ==
    /\ planpc = "start"
    /\ run_all
    /\ runnable' = RepositoryPlan(branches, badges, config, remote, run_all)
    /\ planpc' = "done"
    /\ UNCHANGED <<branches, repoconf, badges, config, remote, current_commit, run_all>>
    /\ UNCHANGED <<sharedvars, procvars, runnervars, sidevars>>

\* Repository.plan otherwise (lines 463-480): Branch.plan resolves every
\* branch's commit, the candidates seed the list, the badge loop adjusts it.
PlanFilter ==
    /\ planpc = "start"
    /\ ~run_all
    /\ current_commit' = remote
    /\ runnable' = RepositoryPlan(branches, badges, config, remote, run_all)
    /\ planpc' = "done"
    /\ UNCHANGED <<branches, repoconf, badges, config, remote, run_all>>
    /\ UNCHANGED <<sharedvars, procvars, runnervars, sidevars>>

PlanNext == AptUpdates \/ PlanRunAll \/ PlanFilter

SpecPlan == PlanInit /\ [][PlanNext]_vars

\* ------------------------------------------------------------ run()
\* A try_lock that creates the file without exclusivity (touch(exist_ok=True)).
TryLockExistOk == TRUE

\* NightlyRunner.try_lock: Path.touch(exist_ok=False), an exclusive create.
TryLock == ~pid_file.exists

\* Positions of run() between acquiring the lock and unlinking the lock file.
Holding == {"locked", "repos", "jobs", "running", "finishing"}

\* slack.send as nightlies.py calls it: the notification is handed to the
\* transport, whose failures are logged and swallowed, so the call returns.
SlackSend(sent, msg) == Append(sent, msg)

\* What one call of Repository.post hands to slack.send: the notifications
\* sent so far plus the new one, if any (lines 482-504).
RepositoryPost(sent, r, token, fatal, run, inf, dry) ==
    IF ~token THEN sent
    ELSE IF fatal # ""
         THEN SlackSend(sent, [repo |-> r, kind |-> "fatal", text |-> fatal, runs |-> <<>>])
    ELSE LET reported == SelectSeq(run, LAMBDA b : inf[<<r, b>>] # "")
         IN  IF reported = <<>> \/ dry THEN sent
             ELSE SlackSend(sent, [repo |-> r, kind |-> "runs", text |-> "",
                                   runs |-> [i \in 1..Len(reported) |->
                                               <<reported[i], inf[<<r, reported[i]>>]>>]])

\* A per-repository loop whose except clauses miss external-command errors.
RepoHandlerMissesCalledProcessError(exc) == IF exc = "OSError" THEN "continue" ELSE "raise"

\* What the per-repository except clauses do with an exception of class exc
\* raised by load() or plan(): "continue" (record it, post, go on) or "raise".
RepoHandler(exc) == IF exc \in RepoCaught THEN "continue" ELSE "raise"

\* What the per-job except clause does with an exception of class exc raised
\* by Branch.run.
JobHandler(exc) == IF exc \in JobCaught THEN "continue" ELSE "raise"

\* What lock() reports after a failed try_lock (lines 215-220): the holder's
\* pid, or "" when the lock file cannot be read or parsed (both are caught).
LockDiagnostic(file) == IF file.exists /\ file.written THEN file.rec.pid ELSE ""

\* NightlyRunner.load_pid (lines 195-202): only OSError is caught, so a lock
\* file that exists without a record makes json.load raise.
LoadPid(file) ==
    IF ~file.exists THEN "absent"
    ELSE IF ~file.written THEN "JSONDecodeError"
    ELSE "loaded"

\* A run() that removes the lock file when lock() has refused it.
ReturnWithoutLockUnlinks(file) == NoFile

\* The lock file after run() has returned because lock() refused it
\* (lines 241-242): nothing touches it.
ReturnWithoutLock(file) == file

\* run() up to the first try_lock of lock() (lines 233-230); when the lock
\* is refused and waiting is disabled, run() returns.
RunStart(p) ==
    /\ pc[p] = "start"
    /\ IF TryLock
       THEN /\ pid_file' = EmptyFile
            /\ pc' = [pc EXCEPT ![p] = "locked"]
       ELSE /\ LockDiagnostic(pid_file) \in Procs \cup {""}
            /\ pid_file' = IF wait THEN pid_file ELSE ReturnWithoutLock(pid_file)
            /\ pc' = [pc EXCEPT ![p] = IF wait THEN "polling" ELSE "nolock"]
    /\ UNCHANGED <<meta, origin, clock, faults, dryrun, wait, slack_token, rconf, children, observed>>
    /\ UNCHANGED <<data, ri, ji, plan, rrunnable, bconfig, fatalerror, info, posts, synced, spawn, waited, postcalls>>
    /\ UNCHANGED <<planvars, runnervars, sidevars>>

\* A polling loop that gives up when the lock file is still there.
LockPollGivesUp(p) ==
    /\ pc[p] = "polling"
    /\ IF TryLock
       THEN /\ pid_file' = EmptyFile
            /\ pc' = [pc EXCEPT ![p] = "locked"]
       ELSE /\ pid_file' = pid_file
            /\ pc' = [pc EXCEPT ![p] = "nolock"]
    /\ UNCHANGED <<meta, origin, clock, faults, dryrun, wait, slack_token, rconf, children, observed>>
    /\ UNCHANGED <<data, ri, ji, plan, rrunnable, bconfig, fatalerror, info, posts, synced, spawn, waited, postcalls>>
    /\ UNCHANGED <<planvars, runnervars, sidevars>>

\* One successful round of the polling loop of lock() (lines 223-228); a
\* round that finds the file still there sleeps and changes nothing.
LockPoll(p) ==
    /\ pc[p] = "polling"
    /\ TryLock
    /\ pid_file' = EmptyFile
    /\ pc' = [pc EXCEPT ![p] = "locked"]
    /\ UNCHANGED <<meta, origin, clock, faults, dryrun, wait, slack_token, rconf, children, observed>>
    /\ UNCHANGED <<data, ri, ji, plan, rrunnable, bconfig, fatalerror, info, posts, synced, spawn, waited, postcalls>>
    /\ UNCHANGED <<planvars, runnervars, sidevars>>

\* run() lines 244-250: build self.data and save it into the lock file.
SaveRecord(p) ==
    /\ pc[p] = "locked"
    /\ data' = [data EXCEPT ![p] = InitialData(p)]
    /\ pid_file' = SavedFile(InitialData(p))
    /\ ri' = [ri EXCEPT ![p] = 1]
    /\ pc' = [pc EXCEPT ![p] = "repos"]
    /\ UNCHANGED <<meta, origin, clock, faults, dryrun, wait, slack_token, rconf, children, observed>>
    /\ UNCHANGED <<ji, plan, rrunnable, bconfig, fatalerror, info, posts, synced, spawn, waited, postcalls>>
    /\ UNCHANGED <<planvars, runnervars, sidevars>>

\* Where run() goes after the per-repository loop body for repository number i.
AfterRepo(i, pl) ==
    IF i < Len(Repos) THEN "repos" ELSE IF pl = <<>> THEN "finishing" ELSE "jobs"

\* One iteration of the per-repository loop (lines 261-277) for r = Repos[ri]:
\* save the record naming r, load() (fetch, read and rewrite each branch's
\* metadata, assign badges), plan(), extend the job list; or an exception out
\* of load() (stage "load": before anything was fetched or written) or out of
\* plan() (stage "plan": after load() completed).  A fetch leaves a branch at
\* its commit or moves it to the next one (commit numbers are per branch).
RepoStep(p) ==
    /\ pc[p] = "repos"
    /\ LET r    == Repos[ri[p]]
           brs  == RepoBranches[r]
           mine == {<<r, brs[i]>> : i \in 1..Len(brs)}
       IN \E fetched \in [mine -> 1..MaxCommit],
             how \in {"ok", "CalledProcessError", "OSError"},
             stage \in {"load", "plan"} :
          /\ \A j \in mine : fetched[j] \in {origin[j], origin[j] + 1}
          /\ how = "ok" => stage = "plan"
          /\ how # "ok" => faults < MaxFaults
          /\ faults' = IF how = "ok" THEN faults ELSE faults + 1
          /\ LET loaded   == stage = "plan"
                 neworig  == [j \in Jobs |-> IF loaded /\ j \in mine THEN fetched[j] ELSE origin[j]]
                 newcfg   == [j \in Jobs |-> IF loaded /\ j \in mine
                                             THEN ReadMetadata(meta[j]) ELSE bconfig[p][j]]
                 bdgs     == AssignBadges(brs, rconf[r])
                 run      == IF how = "ok"
                             THEN RepositoryPlan(brs, bdgs,
                                                 [b \in DOMAIN bdgs |-> newcfg[<<r, b>>]],
                                                 [b \in DOMAIN bdgs |-> neworig[<<r, b>>]],
                                                 FALSE)
                             ELSE <<>>
                 newplan  == plan[p] \o JobsOf(r, run)
                 newfatal == IF how = "ok" THEN "" ELSE how
             IN /\ pid_file' = SavedFile([data[p] EXCEPT !.repo = r])
                /\ origin' = neworig
                /\ meta' = [j \in Jobs |-> IF loaded /\ j \in mine THEN SaveMetadata(newcfg[j]) ELSE meta[j]]
                /\ bconfig' = [bconfig EXCEPT ![p] = newcfg]
                /\ rrunnable' = [rrunnable EXCEPT ![p][r] = run]
                /\ plan' = [plan EXCEPT ![p] = newplan]
                /\ synced' = [synced EXCEPT ![p][r] = how]
                /\ IF how = "ok"
                   THEN /\ pc' = [pc EXCEPT ![p] = AfterRepo(ri[p], newplan)]
                        /\ UNCHANGED <<fatalerror, posts, postcalls>>
                   ELSE IF RepoHandler(how) = "continue"
                   THEN /\ fatalerror' = [fatalerror EXCEPT ![p][r] = newfatal]
                        /\ postcalls' = [postcalls EXCEPT ![p][r] = @ + 1]
                        /\ posts' = [posts EXCEPT ![p] =
                                       RepositoryPost(posts[p], r, slack_token[r], newfatal,
                                                      run, info[p], dryrun)]
                        /\ pc' = [pc EXCEPT ![p] = AfterRepo(ri[p], newplan)]
                   ELSE /\ pc' = [pc EXCEPT ![p] = "raised"]
                        /\ UNCHANGED <<fatalerror, posts, postcalls>>
                /\ ri' = [ri EXCEPT ![p] = IF pc'[p] = "raised" THEN ri[p] ELSE ri[p] + 1]
                /\ ji' = [ji EXCEPT ![p] = IF pc'[p] = "jobs" THEN 1 ELSE ji[p]]
    /\ UNCHANGED <<clock, dryrun, wait, slack_token, rconf, children, observed>>
    /\ UNCHANGED <<data, info, spawn, waited>>
    /\ UNCHANGED <<planvars, runnervars, sidevars>>

\* The per-job loop up to the wait for the child (lines 279-290, 567-590):
\* the record gets the job's keys and is saved; unless dry-run the child is
\* spawned and its pid saved.  An OSError on the way is raised to the
\* handlers of the loop body, which JobEnd models.
JobStart(p) ==
    /\ pc[p] = "jobs"
    /\ \E how \in SpawnOutcomes(dryrun) :
         LET job     == plan[p][ji[p]]
             started == ~dryrun /\ how \in {"ok", "orphan"}
             logged  == [JobRecord(data[p], job, ji[p], Len(plan[p]))
                            EXCEPT !.branch_log = job[2]]
             d       == [logged EXCEPT !.branch_pid = IF started THEN job[2] ELSE @]
         IN /\ how # "ok" => faults < MaxFaults
            /\ faults' = IF how = "ok" THEN faults ELSE faults + 1
            /\ spawn' = [spawn EXCEPT ![p] = how]
            /\ children' = IF started THEN children \cup {<<p, job>>} ELSE children
            /\ data' = [data EXCEPT ![p] = d]
            /\ pid_file' = SavedFile(IF how = "ok" THEN d ELSE logged)
    /\ pc' = [pc EXCEPT ![p] = "running"]
    /\ UNCHANGED <<meta, origin, clock, dryrun, wait, slack_token, rconf, observed>>
    /\ UNCHANGED <<ri, ji, plan, rrunnable, bconfig, fatalerror, info, posts, synced,
                   waited, postcalls>>
    /\ UNCHANGED <<planvars, runnervars, sidevars>>

\* The rest of Branch.run and of the loop body (lines 590-679, 292-304): the
\* wait for the child ends, the child is killed and the slice stopped, the
\* commit is resolved and the metadata written; Branch.run returns with a
\* result kind or an exception leaves it; the finally clause posts for the
\* repository after its last job and saves the record.
JobEnd(p) ==
    /\ pc[p] = "running"
    /\ \E child \in ChildOutcomes, stop \in ExecOutcomes, rev \in ExecOutcomes :
         LET job      == plan[p][ji[p]]
             r        == job[1]
             ran      == spawn[p] = "ok" /\ ~dryrun
             outcome  == BranchRun(dryrun, spawn[p], child, stop, rev)
             returned == outcome \in {"success", "failure", "timeout"}
             persist  == returned /\ ~dryrun
             newcfg   == [bconfig[p][job] EXCEPT !.commit = origin[job], !.time = clock]
             newinfo  == IF returned
                         THEN [info[p] EXCEPT ![job] = FormatResult(FailureOf(outcome))]
                         ELSE info[p]
             caught   == ~returned /\ JobHandler(outcome) = "continue"
             newfatal == IF caught THEN outcome ELSE fatalerror[p][r]
             last     == LastOfRepo(plan[p], ji[p])
             d        == [data[p] EXCEPT !.repo = "", !.branch = "",
                                         !.branch_log = IF returned THEN "" ELSE @]
         IN /\ ~ran => (child = "exit0" /\ stop = "ok" /\ rev = "ok")
            /\ stop = "OSError" => rev = "ok"
            /\ faults + FaultCount(<<stop, rev>>) <= MaxFaults
            /\ faults' = faults + FaultCount(<<stop, rev>>)
            /\ children' = IF ran THEN ProcessKill(children, <<p, job>>) ELSE children
            /\ waited' = [waited EXCEPT ![p][job] = IF ran THEN child ELSE @]
            /\ bconfig' = [bconfig EXCEPT ![p][job] = IF persist THEN newcfg ELSE @]
            /\ meta' = [meta EXCEPT ![job] = IF persist THEN SaveMetadata(newcfg) ELSE @]
            /\ clock' = IF persist THEN clock + 1 ELSE clock
            /\ info' = [info EXCEPT ![p] = newinfo]
            /\ fatalerror' = [fatalerror EXCEPT ![p][r] = newfatal]
            /\ postcalls' = [postcalls EXCEPT ![p][r] = IF last THEN @ + 1 ELSE @]
            /\ posts' = [posts EXCEPT ![p] =
                           IF last
                           THEN RepositoryPost(posts[p], r, slack_token[r], newfatal,
                                               rrunnable[p][r], newinfo, dryrun)
                           ELSE @]
            /\ data' = [data EXCEPT ![p] = d]
            /\ pid_file' = SavedFile(d)
            /\ IF returned \/ caught
               THEN /\ pc' = [pc EXCEPT ![p] = IF ji[p] < Len(plan[p]) THEN "jobs" ELSE "finishing"]
                    /\ ji' = [ji EXCEPT ![p] = ji[p] + 1]
               ELSE /\ pc' = [pc EXCEPT ![p] = "raised"]
                    /\ ji' = ji
    /\ spawn' = [spawn EXCEPT ![p] = ""]
    /\ UNCHANGED <<origin, dryrun, wait, slack_token, rconf, observed>>
    /\ UNCHANGED <<ri, plan, rrunnable, synced>>
    /\ UNCHANGED <<planvars, runnervars, sidevars>>

\* The end of run() (lines 306-307): unlink the lock file and return; the
\* process then exits and its in-memory state is gone.
Unlink(p) ==
    /\ pc[p] = "finishing"
    /\ pid_file' = NoFile
    /\ pc' = [pc EXCEPT ![p] = "done"]
    /\ data' = [data EXCEPT ![p] = NoData]
    /\ ri' = [ri EXCEPT ![p] = 0]
    /\ ji' = [ji EXCEPT ![p] = 0]
    /\ plan' = [plan EXCEPT ![p] = <<>>]
    /\ rrunnable' = [rrunnable EXCEPT ![p] = FreshRunnable]
    /\ bconfig' = [bconfig EXCEPT ![p] = FreshConfig]
    /\ fatalerror' = [fatalerror EXCEPT ![p] = FreshError]
    /\ info' = [info EXCEPT ![p] = FreshInfo]
    /\ posts' = [posts EXCEPT ![p] = <<>>]
    /\ synced' = [synced EXCEPT ![p] = FreshError]
    /\ spawn' = [spawn EXCEPT ![p] = ""]
    /\ waited' = [waited EXCEPT ![p] = FreshInfo]
    /\ postcalls' = [postcalls EXCEPT ![p] = FreshCalls]
    /\ UNCHANGED <<meta, origin, clock, faults, dryrun, wait, slack_token, rconf, children, observed>>
    /\ UNCHANGED <<planvars, runnervars, sidevars>>

\* A request of the status server (server.py lines 75-78, 159, 202) calls
\* load_pid() on a runner object of its own; the object is dropped with the
\* request, an exception out of load_pid() fails the request.
StatusRequest ==
    /\ observed' = IF LoadPid(pid_file) = "JSONDecodeError" THEN "JSONDecodeError" ELSE observed
    /\ UNCHANGED <<pid_file, meta, origin, clock, faults, dryrun, wait, slack_token, rconf, children>>
    /\ UNCHANGED procvars
    /\ UNCHANGED <<planvars, runnervars, sidevars>>

Init == CoordInit /\ PlanIdle /\ RunnerIdle /\ SideIdle

Next ==
    \/ \E p \in Procs :
        \/ RunStart(p)
        \/ LockPoll(p)
        \/ SaveRecord(p)
        \/ RepoStep(p)
        \/ JobStart(p)
        \/ JobEnd(p)
        \/ Unlink(p)
    \/ StatusRequest

Spec == Init /\ [][Next]_vars

\* ------------------------------------------------------------ lock claims
\* The processes that are between acquiring the lock and unlinking the file.
Holders == {p \in Procs : pc[p] \in Holding}

\* C1: of two run() invocations on one lock path at most one holds the lock
\* at any time, and it holds it while the lock file exists; they never both
\* fail to acquire it; the one without the lock is polling (wait enabled) or
\* has returned (wait disabled); and every step that changes a branch
\* metadata file is a step of the process that holds the lock.
C1_LockExclusivity ==
    /\ [](/\ Cardinality(Holders) <= 1
          /\ Holders # {} => pid_file.exists
          /\ \E p \in Procs : pc[p] \notin {"polling", "nolock"}
          /\ \A q \in Procs : /\ pc[q] = "polling" => wait
                              /\ pc[q] = "nolock" => ~wait)
    /\ [][meta' # meta =>
            \E p \in Holders :
                /\ ri'[p] # ri[p] \/ ji'[p] # ji[p]
                /\ \A q \in Procs \ {p} :
                      pc[q] \notin Holding /\ ri'[q] = ri[q] /\ ji'[q] = ji[q]]_vars

\* C1 witness: one process is running a job after writing metadata while the
\* other one, started meanwhile, polls for the lock.
C1_Witness ==
    \E p, q \in Procs :
        /\ pc[p] = "running"
        /\ pc[q] = "polling"
        /\ \E j \in Jobs : ReadMetadata(meta[j]).commit # 0

\* C2: a run() that acquired the lock has removed the lock file when it
\* returns, whether it returns normally or by an error raised on the way.
C2_LockReleasedOnReturn ==
    [][\A p \in Procs :
          (pc[p] \in Holding /\ pc'[p] \in {"done", "raised"}) => ~pid_file'.exists]_vars

\* ------------------------------------------------------------ isolation claims
\* The notifications of kind k sent for repository r by process p.
PostsOf(p, r, k) == {i \in 1..Len(posts[p]) : posts[p][i].repo = r /\ posts[p][i].kind = k}

C4_FailingJobKeepsSiblings ==
    \A p \in Procs :
        pc[p] \in {"finishing", "raised"} => ji[p] >= Len(plan[p])

\* ------------------------------------------------------------ planner claims
\* plan() has returned for a repository that is not flagged run-all.
PlanDone == planpc = "done" /\ ~run_all

HasBadge(b, badge) == InSeq(badge, badges[b])

\* The branch's resolved remote commit differs from its stored commit.
Changed(b) == config[b].commit # current_commit[b]

\* Number of times b occurs in the runnable list.
Occurrences(b) == Cardinality({i \in 1..Len(runnable) : runnable[i] = b})

\* Position of b in the runnable list (0 when absent).
Position(b) == FirstIndex(b, runnable)

\* C5: with one change candidate a marked never, an unchanged b marked
\* always and an unchanged c marked baseline, the plan is <<c, b>> whatever
\* the discovery order of the three branches.
C5_BadgePrecedence ==
    PlanDone =>
        \A a, b, c \in BranchSet :
            ( /\ BranchSet = {a, b, c} /\ a # b /\ a # c /\ b # c
              /\ repoconf.never = {a} /\ repoconf.always = {b} /\ repoconf.baseline = {c}
              /\ Changed(a) /\ ~Changed(b) /\ ~Changed(c) )
            => runnable = <<c, b>>

\* C6: whenever some branch is a change candidate or marked always, the
\* (single) branch marked baseline and not never is the first element of the
\* plan, whatever the discovery order.
C6_BaselineFirst ==
    PlanDone =>
        \A c \in BranchSet :
            ( /\ repoconf.baseline = {c}
              /\ ~HasBadge(c, "never")
              /\ \E b \in BranchSet : Changed(b) \/ HasBadge(b, "always") )
            => (runnable # <<>> /\ runnable[1] = c)

\* An unchanged baseline branch that is not marked always.
IdleBaseline(b) == HasBadge(b, "baseline") /\ ~Changed(b) /\ ~HasBadge(b, "always")

\* The plan is not empty and holds nothing but idle baseline branches.
OnlyIdleBaselines ==
    runnable # <<>> /\ \A i \in 1..Len(runnable) : IdleBaseline(runnable[i])

\* C7: a baseline branch does not run when nothing else runs: the final
\* plan never consists solely of unchanged baseline branches that are not
\* marked always.
C7_BaselineNeverAlone == PlanDone => ~OnlyIdleBaselines

\* C8: no branch marked never is in the plan, whatever else it is marked
\* with and whether or not it changed.
C8_NeverExcluded ==
    PlanDone => \A b \in BranchSet : HasBadge(b, "never") => ~InSeq(b, runnable)

\* C8 witness: a changed branch marked never, always and baseline is left
\* out of a plan that holds another branch.
C8_Witness ==
    /\ PlanDone
    /\ runnable # <<>>
    /\ \E b \in BranchSet :
          /\ HasBadge(b, "never") /\ HasBadge(b, "always") /\ HasBadge(b, "baseline")
          /\ Changed(b)
          /\ ~InSeq(b, runnable)

\* C9: every branch marked always and not never is in the plan exactly
\* once, changed or not.
C9_AlwaysIncludedOnce ==
    PlanDone =>
        \A b \in BranchSet :
            (HasBadge(b, "always") /\ ~HasBadge(b, "never")) => Occurrences(b) = 1

\* C9 witness: an unchanged always branch and a changed always branch are
\* both planned.
C9_Witness ==
    /\ PlanDone
    /\ \E b, c \in BranchSet :
          /\ HasBadge(b, "always") /\ ~HasBadge(b, "never") /\ ~Changed(b)
          /\ HasBadge(c, "always") /\ ~HasBadge(c, "never") /\ Changed(c)
          /\ InSeq(b, runnable) /\ InSeq(c, runnable)

\* A branch marked with none of always, baseline, never.
Plain(b) == ~HasBadge(b, "always") /\ ~HasBadge(b, "baseline") /\ ~HasBadge(b, "never")

\* C10: a branch with none of the three badges is planned iff its remote
\* commit differs from the stored one (no stored commit counts as
\* different), and such branches keep their discovery order in the plan.
C10_ChangeCandidates ==
    PlanDone =>
        /\ \A b \in BranchSet : Plain(b) => (InSeq(b, runnable) <=> Changed(b))
        /\ \A b \in BranchSet : (Plain(b) /\ config[b] = EmptyConfig) => InSeq(b, runnable)
        /\ \A i, k \in 1..Len(branches) :
              ( /\ i < k /\ Plain(branches[i]) /\ Plain(branches[k])
                /\ InSeq(branches[i], runnable) /\ InSeq(branches[k], runnable) )
              => Position(branches[i]) < Position(branches[k])

\* C10 witness: two plain branches, the first without a stored commit, are
\* planned in discovery order behind a baseline branch discovered last.
C10_Witness ==
    /\ PlanDone
    /\ Len(branches) = 3
    /\ Plain(1) /\ Plain(2) /\ HasBadge(3, "baseline")
    /\ config[1] = EmptyConfig /\ config[2] # EmptyConfig
    /\ runnable = <<3, 1, 2>>

\* ------------------------------------------------------------ runner.py
\* read_metadata of runner.py: a missing file and a file json.load rejects
\* both give the empty record.
RunnerReadMetadata(file) ==
    IF file.exists /\ JsonLoad(file.text).error = "" THEN JsonLoad(file.text).value
    ELSE EmptyConfig

\* save_metadata of runner.py.
RunnerSaveMetadata(record) == [exists |-> TRUE, text |-> JsonDump(record)]

\* The metadata files a runner invocation may find: none, one left truncated
\* by an interrupted write, or the record of an earlier run.
RunnerMetadataFiles ==
    {NoMetadata} \cup {TruncatedMetadata(InterruptedRecord, n) : n \in 0..2}
                 \cup {RunnerSaveMetadata([commit |-> c, time |-> 1]) : c \in 1..MaxCommit}

\* The exit status of a Python process that an uncaught exception ends.
Traceback == 1

\* SIGTERM
SIGTERM == 15

\* len(sys.argv) that main() accepts (line 236).
ArgvLen == 5

\* The value main() returns for a wrong number of arguments (line 238).
UsageError == 2

\* A return value that reports success whatever the job did.
ReturnCodeAlwaysZero(failure) == 0

\* The value run_branch returns (line 232): 1 if failure else 0.
ReturnCode(failure) == IF failure # "" THEN 1 ELSE 0

\* How a request to the notification service can end: it is accepted, the
\* service answers with an HTTP error status, the host cannot be reached, or
\* the reply is not the JSON object the API promises.
TransportOutcomes == {"ok", "HTTPError", "URLError", "InvalidReply"}

\* send_webhook (lines 167-177): only urllib's HTTPError becomes a
\* SlackError; an unreachable host (URLError) leaves as it is; the reply is
\* read and not parsed.  "" stands for a normal return.
SendWebhook(t) ==
    IF t = "HTTPError" THEN "SlackError"
    ELSE IF t = "URLError" THEN "URLError"
    ELSE ""

\* send_api (lines 145-165): HTTPError and a reply that is not valid become
\* a SlackError; an unreachable host (URLError) leaves as it is.
SendApi(t) ==
    IF t = "HTTPError" THEN "SlackError"
    ELSE IF t = "URLError" THEN "URLError"
    ELSE IF t = "InvalidReply" THEN "SlackError"
    ELSE ""

\* SlackOutput._send (lines 188-193).
SlackOutputSend(api, t) == IF api THEN SendApi(t) ELSE SendWebhook(t)

\* What SlackOutput.post builds (line 203): the result with the elapsed
\* time, if any, and the warnings that are pending.
BuildRuns(result, time, pending) == [result |-> result, time |-> time, warnings |-> pending]

\* The except clause around the report section (line 183) catches OSError
\* and its subclasses; urllib's URLError is one of them.
ReportHandlerCatches(exc) == exc \in {"OSError", "URLError"}

\* The except clause around the final post (line 216).
PostHandlerCatches(exc) == exc = "SlackError"

\* Lines 167-182 of runner.py: a report directory that exists is copied into
\* the reports tree whatever it holds, when no url is in info and a base url
\* is configured; the result is what the reports tree receives ("" nothing).
RunnerPublish(dir, has_url, base) ==
    IF dir \in {"empty", "files"} /\ ~has_url /\ base THEN dir ELSE ""

\* The runner process as the batch scheduler starts it for one branch.
RunnerInit ==
    /\ runner_pc = "main"
    /\ argv_len \in {ArgvLen - 1, ArgvLen}
    /\ metadata_file \in RunnerMetadataFiles
    /\ remote_commit \in 1..MaxCommit
    /\ out = 0
    /\ now = 2
    /\ job_result = "none"
    /\ branch_info = ""
    /\ info_time = FALSE
    /\ slack_output \in BOOLEAN
    /\ slack_api \in BOOLEAN
    /\ slack_output = FALSE => slack_api = FALSE
    /\ slack_posts = <<>>
    /\ delivered = <<>>
    /\ warnings = {}
    /\ base_url = TRUE
    /\ report_dir \in {"none", "absent", "files"}
    /\ reports_tree = ""
    /\ transport = ""
    /\ sstat = ""
    /\ signalled = FALSE
    /\ ended = ""
    /\ exit_status = -1
    /\ CoordIdle
    /\ PlanIdle
    /\ SideIdle

\* main() (lines 235-243) up to the installation of the SIGTERM handler
\* (line 113): a wrong number of arguments returns the usage error.
RunnerMain ==
    /\ runner_pc = "main"
    /\ IF argv_len # ArgvLen
       THEN /\ exit_status' = UsageError
            /\ ended' = "return"
            /\ runner_pc' = "exited"
       ELSE /\ runner_pc' = "start"
            /\ UNCHANGED <<exit_status, ended>>
    /\ UNCHANGED <<argv_len, metadata_file, remote_commit, out, now, job_result, branch_info,
                   info_time, slack_output, slack_api, slack_posts, delivered, warnings,
                   base_url, report_dir, reports_tree, transport, sstat, signalled>>
    /\ UNCHANGED <<planvars, sharedvars, procvars, sidevars>>

\* run_branch lines 115-123: reset the worktree, resolve the commit, take
\* the start time; a git command that fails (check=True) ends the process
\* with a traceback.
RunnerReset ==
    /\ runner_pc = "start"
    /\ \E git \in {"ok", "CalledProcessError"} :
         IF git = "ok"
         THEN /\ out' = remote_commit
              /\ job_result' = "running"
              /\ runner_pc' = "job"
              /\ UNCHANGED <<exit_status, ended>>
         ELSE /\ exit_status' = Traceback
              /\ ended' = git
              /\ runner_pc' = "exited"
              /\ UNCHANGED <<out, job_result>>
    /\ UNCHANGED <<argv_len, metadata_file, remote_commit, now, branch_info, info_time,
                   slack_output, slack_api, slack_posts, delivered, warnings, base_url,
                   report_dir, reports_tree, transport, sstat, signalled>>
    /\ UNCHANGED <<planvars, sharedvars, procvars, sidevars>>

\* run_branch lines 124-149: a configured report directory is wiped and
\* recreated, the job command ends (exit status or timeout) leaving the
\* report directory empty, filled or removed, and the metadata record is
\* read, updated and saved.
RunnerJob ==
    /\ runner_pc = "job"
    /\ \E child \in ChildOutcomes :
         job_result' = FailureKind(WaitRaises(child))
    /\ IF report_dir = "none"
       THEN report_dir' = "none"
       ELSE report_dir' \in {"absent", "empty", "files"}
    /\ metadata_file' = RunnerSaveMetadata([RunnerReadMetadata(metadata_file)
                                                EXCEPT !.commit = out, !.time = now])
    /\ runner_pc' = "report"
    /\ UNCHANGED <<argv_len, remote_commit, out, now, branch_info, info_time, slack_output,
                   slack_api, slack_posts, delivered, warnings, base_url, reports_tree,
                   transport, sstat, signalled, ended, exit_status>>
    /\ UNCHANGED <<planvars, sharedvars, procvars, sidevars>>

\* run_branch lines 151-187: when the report directory exists, its size is
\* compared with the limit (report-size warning) and it is published; an
\* OSError on the way becomes the broken-report warning.  A warning is
\* kept only when a slack output is configured.
RunnerReport ==
    /\ runner_pc = "report"
    /\ IF report_dir \in {"empty", "files"}
       THEN \E big \in BOOLEAN, io \in {"ok", "OSError"} :
              /\ big => report_dir = "files"
              /\ warnings' = IF ~slack_output THEN warnings
                             ELSE warnings \cup (IF big THEN {"report-size"} ELSE {})
                                           \cup (IF ReportHandlerCatches(io)
                                                 THEN {"broken-report"} ELSE {})
              /\ reports_tree' = IF io = "ok" THEN RunnerPublish(report_dir, FALSE, base_url)
                                 ELSE reports_tree
              /\ report_dir' = IF io = "ok" /\ RunnerPublish(report_dir, FALSE, base_url) # ""
                               THEN "absent" ELSE report_dir
       ELSE UNCHANGED <<warnings, reports_tree, report_dir>>
    /\ runner_pc' = "sizes"
    /\ UNCHANGED <<argv_len, metadata_file, remote_commit, out, now, job_result, branch_info,
                   info_time, slack_output, slack_api, slack_posts, delivered, base_url,
                   transport, sstat, signalled, ended, exit_status>>
    /\ UNCHANGED <<planvars, sharedvars, procvars, sidevars>>

\* run_branch lines 189-210: the worktree and the log file are compared with
\* their limits (branch-size, log-size warnings); the result kind and the
\* elapsed time are put into info.
RunnerSizes ==
    /\ runner_pc = "sizes"
    /\ \E raised \in SUBSET {"branch-size", "log-size"} :
         warnings' = IF slack_output THEN warnings \cup raised ELSE warnings
    /\ branch_info' = FormatResult(FailureOf(job_result))
    /\ info_time' = TRUE
    /\ runner_pc' = "post"
    /\ UNCHANGED <<argv_len, metadata_file, remote_commit, out, now, job_result, slack_output,
                   slack_api, slack_posts, delivered, base_url, report_dir, reports_tree,
                   transport, sstat, signalled, ended, exit_status>>
    /\ UNCHANGED <<planvars, sharedvars, procvars, sidevars>>

\* run_branch lines 212-217 with SlackOutput.post up to the return of _send
\* (lines 203-204): the notification is built with the pending warnings and
\* sent; a SlackError is logged, any other exception ends the process.
RunnerPost ==
    /\ runner_pc = "post"
    /\ IF ~slack_output
       THEN /\ runner_pc' = "sstat"
            /\ UNCHANGED <<slack_posts, delivered, transport, ended, exit_status>>
       ELSE \E t \in TransportOutcomes :
              LET msg == BuildRuns(branch_info, info_time, warnings)
                  exc == SlackOutputSend(slack_api, t)
              IN /\ transport' = t
                 /\ slack_posts' = Append(slack_posts, msg)
                 /\ delivered' = IF exc = "" THEN Append(delivered, msg) ELSE delivered
                 /\ IF exc = "" THEN /\ runner_pc' = "sent"
                                     /\ UNCHANGED <<ended, exit_status>>
                    ELSE IF PostHandlerCatches(exc)
                    THEN /\ runner_pc' = "sstat"
                         /\ UNCHANGED <<ended, exit_status>>
                    ELSE /\ runner_pc' = "exited"
                         /\ ended' = exc
                         /\ exit_status' = Traceback
    /\ UNCHANGED <<argv_len, metadata_file, remote_commit, out, now, job_result, branch_info,
                   info_time, slack_output, slack_api, warnings, base_url, report_dir,
                   reports_tree, sstat, signalled>>
    /\ UNCHANGED <<planvars, sharedvars, procvars, sidevars>>

\* SlackOutput.post line 205, after _send has returned: the warnings are
\* cleared.
RunnerClear ==
    /\ runner_pc = "sent"
    /\ warnings' = {}
    /\ runner_pc' = "sstat"
    /\ UNCHANGED <<argv_len, metadata_file, remote_commit, out, now, job_result, branch_info,
                   info_time, slack_output, slack_api, slack_posts, delivered, base_url,
                   report_dir, reports_tree, transport, sstat, signalled, ended, exit_status>>
    /\ UNCHANGED <<planvars, sharedvars, procvars, sidevars>>

\* run_branch lines 219-232: sstat is queried (check=True) and the return
\* value of run_branch becomes the exit status.
RunnerFinish ==
    /\ runner_pc = "sstat"
    /\ \E q \in {"ok", "CalledProcessError"} :
         /\ sstat' = q
         /\ ended' = IF q = "ok" THEN "return" ELSE q
         /\ exit_status' = IF q = "ok" THEN ReturnCode(FailureOf(job_result)) ELSE Traceback
    /\ runner_pc' = "exited"
    /\ UNCHANGED <<argv_len, metadata_file, remote_commit, out, now, job_result, branch_info,
                   info_time, slack_output, slack_api, slack_posts, delivered, warnings,
                   base_url, report_dir, reports_tree, transport, signalled>>
    /\ UNCHANGED <<planvars, sharedvars, procvars, sidevars>>

\* Positions of run_branch at which the SIGTERM handler is installed.
HandlerInstalled == {"start", "job", "report", "sizes", "post", "sent", "sstat"}

\* handle_sigterm (lines 100-111), run when SIGTERM arrives after line 113:
\* the result becomes killed, the elapsed time is added once the job has
\* started, the result is posted (a SlackError is logged) and SystemExit is
\* raised.  The exception that leaves the handler, SystemExit or one that
\* post() let through, is raised at the interrupted statement: the except
\* clause of the report section catches an OSError there and run_branch goes
\* on; everywhere else the exception ends the process.
RunnerSigterm ==
    /\ runner_pc \in HandlerInstalled
    /\ ~signalled
    /\ signalled' = TRUE
    /\ branch_info' = "*killed*"
    /\ info_time' = (runner_pc # "start")
    /\ \E t \in TransportOutcomes :
         LET msg  == BuildRuns("*killed*", runner_pc # "start", warnings)
             sent == IF slack_output THEN SlackOutputSend(slack_api, t) ELSE ""
             exc  == IF sent \in {"", "SlackError"} THEN "SystemExit" ELSE sent
             held == runner_pc = "report" /\ report_dir \in {"empty", "files"}
                     /\ ReportHandlerCatches(exc)
         IN /\ ~slack_output => t = "ok"
            /\ slack_posts' = IF slack_output THEN Append(slack_posts, msg) ELSE slack_posts
            /\ delivered' = IF slack_output /\ sent = "" THEN Append(delivered, msg) ELSE delivered
            /\ warnings' = IF slack_output /\ sent = "" THEN {}
                           ELSE IF held /\ slack_output THEN warnings \cup {"broken-report"}
                           ELSE warnings
            /\ IF held
               THEN /\ runner_pc' = "sizes"
                    /\ UNCHANGED <<ended, exit_status>>
               ELSE /\ runner_pc' = "exited"
                    /\ ended' = exc
                    /\ exit_status' = IF exc = "SystemExit" THEN 128 + SIGTERM ELSE Traceback
    /\ UNCHANGED <<argv_len, metadata_file, remote_commit, out, now, job_result, slack_output,
                   slack_api, base_url, report_dir, reports_tree, transport, sstat>>
    /\ UNCHANGED <<planvars, sharedvars, procvars, sidevars>>

RunnerNext ==
    \/ RunnerMain
    \/ RunnerReset
    \/ RunnerJob
    \/ RunnerReport
    \/ RunnerSizes
    \/ RunnerPost
    \/ RunnerClear
    \/ RunnerFinish
    \/ RunnerSigterm

SpecRunner == RunnerInit /\ [][RunnerNext]_vars

\* ------------------------------------------------------------ termination
\* The posts of the killed result among the posts attempted so far.
KilledPosts == {i \in 1..Len(slack_posts) : slack_posts[i].result = "*killed*"}

\* C21: once a termination signal has reached the job runner after the
\* handler was installed, the job's outcome is recorded as killed, exactly
\* one post of the killed result has been attempted (when a slack output is
\* configured), carrying the elapsed time if the job had started, and the
\* process has exited.
C21_TerminationRecordsKilled ==
    signalled =>
        /\ runner_pc = "exited"
        /\ branch_info = "*killed*"
        /\ Cardinality(KilledPosts) = (IF slack_output THEN 1 ELSE 0)
        /\ \A i \in KilledPosts : slack_posts[i].time = (out # 0)

\* ------------------------------------------------------------ notification
\* The result kind and return code a run that no signal reached ends with.
JobResultKept == branch_info = FormatResult(FailureOf(job_result))

\* C22: a failure of the notification transport (HTTP error, unreachable
\* host, invalid reply) is swallowed: the exception does not end the job
\* runner, and the recorded result kind and the return code are those of
\* the job.
C22_TransportFailureSwallowed ==
    (transport \in TransportOutcomes \ {"ok"} /\ ~signalled) =>
        /\ ended \notin {"URLError", "SlackError"}
        /\ JobResultKept
        /\ ended = "return" => exit_status = ReturnCode(FailureOf(job_result))

\* ------------------------------------------------------------ return codes
\* C25: when the entry point returns, it returns 0 exactly when the job's
\* result kind is success, 1 when the job failed or timed out, and 2 when
\* the number of arguments is wrong; in that last case no job is run and no
\* state is changed.
C25_ReturnCodes ==
    /\ [](ended = "return" =>
            IF argv_len = ArgvLen
            THEN /\ exit_status = 0 <=> job_result = "success"
                 /\ exit_status = 1 <=> job_result \in {"failure", "timeout"}
                 /\ exit_status \in {0, 1}
            ELSE /\ exit_status = UsageError
                 /\ job_result = "none")
    /\ [](exit_status = 0 => job_result = "success")
    /\ [][(runner_pc = "main" /\ argv_len # ArgvLen) =>
            /\ runner_pc' = "exited"
            /\ UNCHANGED <<metadata_file, out, job_result, branch_info, slack_posts, delivered,
                           warnings, report_dir, reports_tree>>]_vars

\* C25 witness: a job that timed out has made the entry point return 1 after
\* a failed post that was swallowed.
C25_Witness ==
    /\ ended = "return"
    /\ argv_len = ArgvLen
    /\ job_result = "timeout"
    /\ exit_status = 1
    /\ transport = "HTTPError"

\* ------------------------------------------------------------ warnings
\* The warnings run_branch can raise.
WarningKeys == {"report-size", "branch-size", "log-size", "broken-report"}

\* The notifications the service accepted that carry warning w.
DeliveriesOf(w) == {i \in 1..Len(delivered) : w \in delivered[i].warnings}

\* C28: a size warning is non-fatal (the result kind and the return code
\* are those of the job) and no warning is delivered twice: a notification
\* that was sent successfully has cleared the warnings it carried.
C28_WarningsDeliveredOnce ==
    /\ \A w \in WarningKeys : Cardinality(DeliveriesOf(w)) <= 1
    /\ (ended = "return" /\ argv_len = ArgvLen) =>
           exit_status = ReturnCode(FailureOf(job_result))

\* C12: once a job has been executed for a branch and a result kind is
\* recorded for it (success, failure, timeout or killed), the branch's
\* metadata record holds the commit that was run and the new timestamp.
C12_MetadataForEveryKind ==
    (job_result # "none" /\ branch_info # "") =>
        RunnerReadMetadata(metadata_file) = [commit |-> out, time |-> now]

\* ------------------------------------------------------------ idempotence
\* The metadata records after the planned branches have been executed and
\* the repository is loaded again: Branch.run stores the commit it resolved
\* (lines 607-615), every other record is as it was.
ExecutedConfig ==
    [b \in BranchSet |-> IF InSeq(b, runnable) THEN [commit |-> remote[b], time |-> 2]
                                               ELSE config[b]]

\* C11: once the planned branches of a repository have been executed, with
\* the remote commits unchanged and no branch marked always, planning the
\* repository again gives an empty runnable list.
C11_ReplanIsEmpty ==
    (planpc = "done" /\ \A b \in BranchSet : ~HasBadge(b, "always")) =>
        RepositoryPlan(branches, badges, ExecutedConfig, remote, FALSE) = <<>>

\* ------------------------------------------------------------ result kinds
\* C13: a job whose child was still running when the timeout expired is
\* recorded with the result kind timeout, whatever happened while the child
\* and its slice were being stopped, and its metadata holds the commit run.
C13_TimeoutDominance ==
    \A p \in Procs : \A j \in Jobs :
        waited[p][j] = "timeout" =>
            /\ info[p][j] = "*timeout*"
            /\ ReadMetadata(meta[j]).commit = origin[j]

\* C14: the recorded result kind is decided by the exit status of the job
\* alone: success for an exit status of 0 before the timeout, failure for a
\* non-zero exit status before the timeout.
C14_ExitStatusDecides ==
    \A p \in Procs : \A j \in Jobs :
        info[p][j] # "" =>
            /\ waited[p][j] = "exit0" => info[p][j] = "success"
            /\ waited[p][j] = "exitN" => info[p][j] = "*failure*"

\* ------------------------------------------------------------ metadata
\* The records a metadata file can hold in the current state.
MetadataRecords == [commit : 0..MaxCommit, time : 0..clock]

\* The file holds the complete text of some record.
Complete(file) == file.exists /\ \E c \in MetadataRecords : file.text = JsonDump(c)

\* The record whose complete text the file holds.
RecordOf(file) == CHOOSE c \in MetadataRecords : file.text = JsonDump(c)

\* Process p takes the step that loads and plans the repository of job j.
LoadsJob(p, j) ==
    /\ pc[p] = "repos"
    /\ j[1] = Repos[ri[p]]
    /\ ri'[p] = ri[p] + 1
    /\ synced'[p][j[1]] = "ok"

C16_MalformedStateNeverFatal == observed # "JSONDecodeError"

\* ------------------------------------------------------------ job loop claims
\* The positions in p's job list of the jobs of repository r.
JobIndexes(p, r) == {k \in 1..Len(plan[p]) : plan[p][k][1] = r}

\* The last job p planned for repository r has finished: the loop has moved
\* past it, or run() was left by an exception raised while it was the
\* current job.
LastJobFinished(p, r) ==
    \A k \in JobIndexes(p, r) : ji[p] > k \/ (pc[p] = "raised" /\ ji[p] = k)

\* C17: in one cycle Repository.post is called at most once per repository;
\* for a repository with planned jobs it has been called exactly once when
\* its last planned job has finished and not at all before.
C17_PostOncePerRepository ==
    \A p \in Procs : \A r \in RepoNames :
        /\ postcalls[p][r] <= 1
        /\ JobIndexes(p, r) # {} => (postcalls[p][r] = 1 <=> LastJobFinished(p, r))

\* C17 witness: with the job list X/main, X/feat, Y/main the third job is
\* running; post has been called for X and not yet for Y.
C17_Witness ==
    \E p \in Procs :
        /\ plan[p] = <<(<<"X", "main">>), (<<"X", "feat">>), (<<"Y", "main">>)>>
        /\ pc[p] = "running" /\ ji[p] = 3
        /\ postcalls[p]["X"] = 1 /\ postcalls[p]["Y"] = 0
        /\ Len(posts[p]) = 1

\* The children of p that are running.
ChildrenOf(p) == {c \in children : c[1] = p}

\* C18: the job list is the per-repository plans concatenated in
\* configuration order; its jobs are run one after the other in list order;
\* a job is not started while the child of an earlier one is running, so at
\* most one job child process is running at any time.
C18_SequentialJobs ==
    /\ [](/\ Cardinality(children) <= 1
          /\ \A p \in Procs :
                /\ pc[p] \in {"jobs", "running", "finishing", "raised"} =>
                      plan[p] = JobsOf("X", rrunnable[p]["X"]) \o JobsOf("Y", rrunnable[p]["Y"])
                /\ pc[p] \in {"jobs", "finishing", "done"} => ChildrenOf(p) = {}
                /\ ChildrenOf(p) \subseteq {<<p, plan[p][k]>> : k \in {ji[p]} \cap DOMAIN plan[p]}
                /\ \A k \in 1..Len(plan[p]) :
                      (k > ji[p] \/ (k = ji[p] /\ pc[p] = "jobs")) =>
                          (info[p][plan[p][k]] = "" /\ waited[p][plan[p][k]] = ""))
    /\ [][\A p \in Procs :
            ji'[p] # ji[p] =>
                \/ ji'[p] = ji[p] + 1 /\ pc[p] = "running"
                \/ ji'[p] = 1 /\ pc[p] = "repos"
                \/ ji'[p] = 0 /\ pc[p] = "finishing"]_vars

\* C18 witness: the second job of the list is running as the only child,
\* after the first job's child has exited, while the other run() polls.
C18_Witness ==
    \E p, q \in Procs :
        /\ pc[p] = "running" /\ ji[p] = 2
        /\ children = {<<p, plan[p][2]>>}
        /\ waited[p][plan[p][1]] = "exitN"
        /\ pc[q] = "polling"

\* C19: a run() that finds the lock file and does not wait returns without
\* an error having done nothing: the step leaves the lock file, its record,
\* the metadata and the remotes as they are, starts no child; the run() has
\* synced no repository, planned and executed no job, and takes no further
\* step.
C19_NoOpWhenLocked ==
    /\ [](\A p \in Procs :
            pc[p] = "nolock" =>
                /\ ~wait
                /\ plan[p] = <<>> /\ synced[p] = FreshError /\ info[p] = FreshInfo
                /\ data[p] = NoData /\ posts[p] = <<>> /\ postcalls[p] = FreshCalls
                /\ ChildrenOf(p) = {})
    /\ [][\A p \in Procs :
            /\ (pc[p] = "start" /\ pc'[p] # "start" /\ pid_file.exists /\ ~wait) =>
                  /\ pc'[p] = "nolock"
                  /\ pid_file' = pid_file
                  /\ <<meta, origin, clock, children>>' = <<meta, origin, clock, children>>
            /\ pc[p] = "nolock" => pc'[p] = "nolock"]_vars

\* C19 witness: one run() has returned without the lock while the other
\* one, whose record the lock file holds, is running a job.
C19_Witness ==
    \E p, q \in Procs :
        /\ pc[p] = "nolock"
        /\ pc[q] = "running"
        /\ pid_file.written /\ pid_file.rec.pid = q /\ pid_file.rec.branch # ""

\* C20: a run() that has acquired the lock leaves the positions between
\* lock and unlink only by returning, with the lock file removed and every
\* configured repository attempted.
C20_RunReturnsReleased ==
    [][\A p \in Procs :
          (pc[p] \in Holding /\ pc'[p] \notin Holding) =>
              /\ pc'[p] = "done"
              /\ ~pid_file'.exists
              /\ \A r \in RepoNames : synced[p][r] # ""]_vars
\* ------------------------------------------------------------ lock record
\* Branch.run is in progress for the job the loop is at.
Executing(p) == pc[p] = "running" /\ spawn[p] # "OSError"

\* C26: whenever a job is executing, the persisted lock record names the
\* job's repository and branch, runs_done is the job's index in the job
\* list and runs_total the length of the list, so 0 <= runs_done <
\* runs_total; and runs_done never decreases during a cycle.
C26_LockRecordProgress ==
    /\ [](\A p \in Procs : Executing(p) =>
            LET job == plan[p][ji[p]]
                rec == pid_file.rec
            IN  /\ pid_file.exists /\ pid_file.written
                /\ rec.pid = p
                /\ rec.repo = job[1]
                /\ rec.branch = job[2]
                /\ rec.runs_done = ji[p] - 1
                /\ rec.runs_total = Len(plan[p])
                /\ 0 <= rec.runs_done /\ rec.runs_done < rec.runs_total)
    /\ [][(pid_file.written /\ pid_file'.written /\ pid_file'.rec.pid = pid_file.rec.pid) =>
            pid_file'.rec.runs_done >= pid_file.rec.runs_done]_vars

\* C26 witness: the second job of a cycle is executing with its child alive.
C26_Witness ==
    \E p \in Procs :
        /\ Executing(p)
        /\ ji[p] = 2
        /\ <<p, plan[p][2]>> \in children
        /\ pid_file.rec.runs_done = 1

\* At least one job of p's cycle has ended.
JobEnded(p) ==
    \/ pc[p] = "jobs" /\ ji[p] > 1
    \/ pc[p] = "finishing" /\ plan[p] # <<>>
    \/ pc[p] = "raised" /\ ji[p] >= 1

\* C27: after a job has ended, by success, failure, timeout or a raised
\* error, none of the per-job fields branch, branch_log and branch_pid
\* remains in the persisted lock record.
C27_PerJobFieldsCleared ==
    \A p \in Procs : JobEnded(p) =>
        /\ pid_file.written
        /\ pid_file.rec.branch = ""
        /\ pid_file.rec.branch_log = ""
        /\ pid_file.rec.branch_pid = ""

\* ------------------------------------------------------------ Branch.run
\* The value a job's child reports for a key: it names the job.
Reported(k) == JobBranches[k]

\* NightlyRunner.add_info as cmdline.py calls it (emoji, url, img): one
\* line with the key and the value is appended to the channel's file.
AddInfo(lines, key, value) == Append(lines, <<key, value>>)

\* Branch.add_warning (lines 523-524): self.repo.warnings[key] = message.
\* A message stands for its text, which names the branch, its report's size
\* or its report's largest file; here it is the name of the branch.
AddWarning(map, key, message) == [map EXCEPT ![key] = message]

\* The warnings Branch.run raises in one job, added in the order of the code
\* (report-size at line 637, log-size at line 674).
AddWarnings(map, raised, message) ==
    LET first == IF "report-size" \in raised THEN AddWarning(map, "report-size", message)
                 ELSE map
    IN  IF "log-size" \in raised THEN AddWarning(first, "log-size", message) ELSE first

\* The record Branch.run stores after a job (lines 607-615).
StoredRecord == [commit |-> MaxCommit, time |-> MaxCommit]

\* A Branch.run that publishes in dry-run too.
BranchPublishInDryRun(dry, dir, url) ==
    IF dir \in {"empty", "files"} /\ url = "" THEN dir ELSE ""

\* Lines 617-661 of nightlies.py: outside dry-run a report directory that
\* exists is copied into the reports tree, whatever it holds, unless info
\* already has a url; the result is what is copied ("" nothing).
BranchPublish(dry, dir, url) ==
    IF ~dry /\ dir \in {"empty", "files"} /\ url = "" THEN dir ELSE ""

\* A cycle about to load its repository: the report directory is not
\* configured, is missing, or holds the files of an earlier run; the
\* metadata files are missing, cut short by an interrupted write, or whole.
JobInit ==
    /\ job_pc = "load"
    /\ job_k = 1
    /\ job_dry \in BOOLEAN
    /\ info_file = <<>>
    /\ said = [k \in JobNumbers |-> {}]
    /\ binfo = [k \in JobNumbers |-> NoInfo]
    /\ \E dir \in {"none", "absent", "files"} : wt_report = [k \in JobNumbers |-> dir]
    /\ reports_pub = {}
    /\ spawned = {}
    /\ \E file \in {NoMetadata, TruncatedMetadata(InterruptedRecord, 1),
                     SaveMetadata(InterruptedRecord)} :
          job_meta = [k \in JobNumbers |-> file]
    /\ repo_warnings = NoWarnings
    /\ warned = {}
    /\ CoordIdle
    /\ PlanIdle
    /\ RunnerIdle
    /\ RepoIdle
    /\ NameIdle

\* Repository.load lines 401-410: every branch's metadata is read and
\* written back.
JobLoad ==
    /\ job_pc = "load"
    /\ job_meta' = [k \in JobNumbers |-> SaveMetadata(ReadMetadata(job_meta[k]))]
    /\ job_pc' = "spawn"
    /\ UNCHANGED <<job_k, job_dry, info_file, said, binfo, wt_report, reports_pub, spawned,
                   repo_warnings, warned>>
    /\ UNCHANGED <<planvars, sharedvars, procvars, runnervars, repovars, namevars>>

\* Branch.run lines 566-588: outside dry-run a configured report directory
\* is wiped and recreated, and the child is spawned.
BranchSpawn ==
    /\ job_pc = "spawn"
    /\ wt_report' = [wt_report EXCEPT ![job_k] =
                        IF ~job_dry /\ @ # "none" THEN "empty" ELSE @]
    /\ spawned' = IF job_dry THEN spawned ELSE spawned \cup {job_k}
    /\ job_pc' = "child"
    /\ UNCHANGED <<job_k, job_dry, info_file, said, binfo, reports_pub, job_meta,
                   repo_warnings, warned>>
    /\ UNCHANGED <<planvars, sharedvars, procvars, runnervars, repovars, namevars>>

\* The job's build script invokes the reporting command (cmdline.py lines
\* 18-25) with a key it has not reported yet.
ChildAddInfo ==
    /\ job_pc = "child"
    /\ job_k \in spawned
    /\ \E key \in {"url", "img"} \ said[job_k] :
         /\ info_file' = AddInfo(info_file, key, Reported(job_k))
         /\ said' = [said EXCEPT ![job_k] = @ \cup {key}]
    /\ UNCHANGED <<job_pc, job_k, job_dry, binfo, wt_report, reports_pub, spawned, job_meta,
                   repo_warnings, warned>>
    /\ UNCHANGED <<planvars, sharedvars, procvars, runnervars, repovars, namevars>>

\* The job writes files into its report directory.
ChildWritesReport ==
    /\ job_pc = "child"
    /\ job_k \in spawned
    /\ wt_report[job_k] = "empty"
    /\ wt_report' = [wt_report EXCEPT ![job_k] = "files"]
    /\ UNCHANGED <<job_pc, job_k, job_dry, info_file, said, binfo, reports_pub, spawned,
                   job_meta, repo_warnings, warned>>
    /\ UNCHANGED <<planvars, sharedvars, procvars, runnervars, repovars, namevars>>

\* Branch.run lines 589-679 when every command it runs succeeds: the child
\* ends; outside dry-run the commit and the time are stored, a report that
\* is too big raises the report-size warning, the report directory is
\* published and its url put into info; the result is put into info; a log
\* file that is too big raises the log-size warning (in dry-run no log file
\* is written); the loop of run() goes to the next job.
BranchFinish ==
    /\ job_pc = "child"
    /\ \E child \in ChildOutcomes, raised \in SUBSET WarningKinds :
         LET outcome == BranchRun(job_dry, "ok", child, "ok", "ok")
             copied  == BranchPublish(job_dry, wt_report[job_k], binfo[job_k].url)
         IN /\ job_dry => (child = "exit0" /\ raised = {})
            /\ "report-size" \in raised => wt_report[job_k] = "files"
            /\ job_meta' = [job_meta EXCEPT ![job_k] =
                              IF job_dry THEN @
                              ELSE SaveMetadata([ReadMetadata(@) EXCEPT
                                                    !.commit = StoredRecord.commit,
                                                    !.time = StoredRecord.time])]
            /\ repo_warnings' = AddWarnings(repo_warnings, raised, JobBranches[job_k])
            /\ warned' = warned \cup {<<key, job_k>> : key \in raised}
            /\ reports_pub' = IF copied = "" THEN reports_pub
                                ELSE reports_pub \cup {<<job_k, copied>>}
            /\ binfo' = [binfo EXCEPT ![job_k] =
                           [@ EXCEPT !.url = IF copied = "" THEN @ ELSE "published",
                                     !.result = FormatResult(FailureOf(outcome))]]
    /\ job_pc' = IF job_k < Len(JobBranches) THEN "spawn" ELSE "done"
    /\ job_k' = job_k + 1
    /\ UNCHANGED <<job_dry, info_file, said, wt_report, spawned>>
    /\ UNCHANGED <<planvars, sharedvars, procvars, runnervars, repovars, namevars>>

JobNext == JobLoad \/ BranchSpawn \/ ChildAddInfo \/ ChildWritesReport \/ BranchFinish

SpecJob == JobInit /\ [][JobNext]_vars

\* ------------------------------------------------------------ result channel
\* C23: the key/value pairs a job reported through the result channel are
\* in that job's info map once the job has terminated, the channel is empty
\* again before the next job starts, and no job's info holds a value that
\* another job reported.
C23_ChannelMergedAndReset ==
    /\ \A k \in JobNumbers : k < job_k =>
           \A key \in said[k] : binfo[k][key] = Reported(k)
    /\ job_pc = "spawn" => info_file = <<>>
    /\ \A k \in JobNumbers : \A j \in JobNumbers \ {k} :
           binfo[k].url # Reported(j) /\ binfo[k].img # Reported(j)

\* ------------------------------------------------------------ report publishing
\* C29: a report directory is published only if it exists and is not empty:
\* the reports tree never receives the copy of an empty report directory.
C29_PublishOnlyNonEmpty == reports_tree \in {"", "files"}

\* ------------------------------------------------------------ Repository
\* A repository root after the checkout exists and the remote's branches
\* have been listed (Repository.load up to line 396).
RepoInit ==
    /\ repo_pc = "clean"
    /\ repo_dry \in BOOLEAN
    /\ clean_cfg \in BOOLEAN
    /\ known \in KnownOptions
    /\ \E rest \in SUBSET RootEntries : rootdir = {Checkout, Status} \cup rest
    /\ ignored \in {{}, {Cache}}
    /\ deleted = {}
    /\ squeue \in SUBSET {MainBranch, FeatBranch}
    /\ repo_badges = <<>>
    /\ repo_runnable = <<>>
    /\ submitted = <<>>
    /\ CoordIdle
    /\ PlanIdle
    /\ RunnerIdle
    /\ JobIdle
    /\ NameIdle

\* Repository.load lines 398-399 and clean(): every unexpected entry of the
\* repository root is deleted, unless the section says clean = no.
RepoClean ==
    /\ repo_pc = "clean"
    /\ deleted' = IF clean_cfg THEN CleanDeletes(rootdir, known, ignored, repo_dry) ELSE {}
    /\ rootdir' = rootdir \ deleted'
    /\ repo_pc' = "load"
    /\ UNCHANGED <<repo_dry, clean_cfg, known, ignored, squeue, repo_badges, repo_runnable, submitted>>
    /\ UNCHANGED <<planvars, sharedvars, procvars, runnervars, jobvars, namevars>>

\* Repository.load lines 401-412: Branch.load adds the missing worktrees,
\* save_metadata writes every branch's metadata file, and the badges are
\* assigned from the section's fields.
RepoLoad ==
    /\ repo_pc = "load"
    /\ rootdir' = rootdir \cup UNION {{BranchDir(known[i]), LastCommit(known[i])} :
                                        i \in 1..Len(known)}
    /\ repo_badges' = AssignBadges(known, RepoSection)
    /\ repo_pc' = "plan"
    /\ UNCHANGED <<repo_dry, clean_cfg, known, ignored, deleted, squeue, repo_runnable, submitted>>
    /\ UNCHANGED <<planvars, sharedvars, procvars, runnervars, jobvars, namevars>>

\* Repository.plan: the branches whose commit changed, then the badge loop.
RepoPlan ==
    /\ repo_pc = "plan"
    /\ \E cfgs \in [{known[i] : i \in 1..Len(known)} -> {EmptyConfig, [commit |-> 1, time |-> 1]}] :
         repo_runnable' = RepositoryPlan(known, repo_badges, cfgs,
                                         [b \in DOMAIN cfgs |-> 1], FALSE)
    /\ repo_pc' = "run"
    /\ UNCHANGED <<repo_dry, clean_cfg, known, rootdir, ignored, deleted, squeue, repo_badges, submitted>>
    /\ UNCHANGED <<planvars, sharedvars, procvars, runnervars, jobvars, namevars>>

\* NightlyRunner.run lines 278-289: every planned branch's job is started.
RepoRun ==
    /\ repo_pc = "run"
    /\ submitted' = repo_runnable
    /\ repo_pc' = "ran"
    /\ UNCHANGED <<repo_dry, clean_cfg, known, rootdir, ignored, deleted, squeue, repo_badges,
                   repo_runnable>>
    /\ UNCHANGED <<planvars, sharedvars, procvars, runnervars, jobvars, namevars>>

\* runnow of server.py (lines 153-181) for a branch of this repository
\* while no cycle runs: the request is refused when the branch read back
\* from the repository root carries the queued badge, and otherwise starts
\* a cycle restricted to that branch.
ServerRunNow ==
    /\ repo_pc = "ran"
    /\ \E branch \in {MainBranch, FeatBranch} :
         LET read == ReadBranches(rootdir, ignored)
             bdgs == [b \in read |-> BadgesOf(b, RepoSection)]
         IN  submitted' = IF branch \in read /\ InSeq("queued", bdgs[branch])
                          THEN submitted
                          ELSE Append(submitted, branch)
    /\ repo_pc' = "served"
    /\ UNCHANGED <<repo_dry, clean_cfg, known, rootdir, ignored, deleted, squeue, repo_badges,
                   repo_runnable>>
    /\ UNCHANGED <<planvars, sharedvars, procvars, runnervars, jobvars, namevars>>

\* The next cycle's Repository.load up to line 396: the remote's branches
\* are listed again, and the scheduler's queue has moved on.
RepoNextCycle ==
    /\ repo_pc \in {"ran", "served"}
    /\ known' \in KnownOptions
    /\ squeue' \in SUBSET {MainBranch, FeatBranch}
    /\ deleted' = {}
    /\ repo_badges' = <<>>
    /\ repo_runnable' = <<>>
    /\ submitted' = <<>>
    /\ repo_pc' = "clean"
    /\ UNCHANGED <<repo_dry, clean_cfg, rootdir, ignored>>
    /\ UNCHANGED <<planvars, sharedvars, procvars, runnervars, jobvars, namevars>>

RepoNext == RepoClean \/ RepoLoad \/ RepoPlan \/ RepoRun \/ ServerRunNow \/ RepoNextCycle

SpecRepo == RepoInit /\ [][RepoNext]_vars

\* ------------------------------------------------------------ queued branches
\* C24: once the cycle has planned, a branch with a pending job in the
\* scheduler's queue carries the queued badge and is not in the plan, and no
\* job is started for it while it is queued.
C24_QueuedBranchExcluded ==
    \A b \in squeue :
        /\ (repo_pc \in {"run", "ran", "served"} /\ InSeq(b, known)) =>
              InSeq("queued", repo_badges[b]) /\ ~InSeq(b, repo_runnable)
        /\ ~InSeq(b, submitted)

\* ------------------------------------------------------------ cleanup
\* C30: clean() deletes only entries that are neither ignored, nor the
\* checkout, nor the status path, nor the worktree or the metadata file of a
\* known branch: every known branch's worktree and metadata file survive.
C30_CleanSparesKnown ==
    /\ deleted \cap IgnoredFiles(ignored) = {}
    /\ \A i \in 1..Len(known) :
          BranchDir(known[i]) \notin deleted /\ LastCommit(known[i]) \notin deleted
    /\ repo_pc = "load" =>
          \A i \in 1..Len(known) :
             /\ BranchDir(known[i]) \in rootdir \cup deleted => BranchDir(known[i]) \in rootdir
             /\ LastCommit(known[i]) \in rootdir \cup deleted => LastCommit(known[i]) \in rootdir

\* C30 witness: a clean() has deleted something (the worktree a vanished
\* branch left behind) while a known branch with an escaped name had its
\* worktree and its metadata file in the repository root, and an ignored
\* directory was there too.
C30_Witness ==
    /\ repo_pc = "load"
    /\ BranchDir(OldBranch) \in deleted
    /\ InSeq(FeatBranch, known)
    /\ {BranchDir(FeatBranch), LastCommit(FeatBranch), Cache} \subseteq rootdir
    /\ Cache \in ignored

\* ------------------------------------------------------------ dry-run cleanup
\* C31: in dry-run a cleanup still deletes the stale worktree directories
\* (none is left in the repository root after it) and deletes nothing else.
C31_DryRunCleanDeletesStaleWorktrees ==
    (repo_pc = "load" /\ repo_dry /\ clean_cfg) =>
        /\ StaleWorktrees(rootdir, known) = {}
        /\ deleted \subseteq WorktreeDirs

\* ------------------------------------------------------------ file names
\* Two distinct branches of one repository, before their Branch objects
\* exist.
NameInit ==
    /\ names \in {pair \in BranchNames \X BranchNames : pair[1] # pair[2]}
    /\ filenames = <<<<>>, <<>>>>
    /\ parsed = {}
    /\ CoordIdle
    /\ PlanIdle
    /\ RunnerIdle
    /\ JobIdle
    /\ RepoIdle

\* Branch.__init__ line 509 for one of the two branches.
BranchInit ==
    /\ \E i \in 1..2 :
         /\ filenames[i] = <<>>
         /\ filenames' = [filenames EXCEPT ![i] = EscapeFilename(names[i])]
    /\ UNCHANGED <<names, parsed>>
    /\ UNCHANGED <<planvars, sharedvars, procvars, runnervars, jobvars, repovars>>

\* Repository.read over the two worktree directories.
RepositoryRead ==
    /\ filenames[1] # <<>>
    /\ filenames[2] # <<>>
    /\ parsed = {}
    /\ parsed' = {ParseFilename(filenames[i]) : i \in 1..2}
    /\ UNCHANGED <<names, filenames>>
    /\ UNCHANGED <<planvars, sharedvars, procvars, runnervars, jobvars, repovars>>

NameNext == BranchInit \/ RepositoryRead

SpecNames == NameInit /\ [][NameNext]_vars

\* C32: two distinct branch names get distinct worktree directories and
\* distinct metadata files, no worktree directory is another branch's
\* metadata file, and parse_filename gives each name back.
C32_EscapingInjective ==
    /\ (filenames[1] # <<>> /\ filenames[2] # <<>>) =>
          /\ filenames[1] # filenames[2]
          /\ filenames[1] # filenames[2] \o <<".json">>
          /\ filenames[2] # filenames[1] \o <<".json">>
    /\ parsed # {} => parsed = {names[1], names[2]}

\* ------------------------------------------------------------ dashboard
\* The positions at which a coordinator is a live process.
Alive == Holding \cup {"polling"}

\* delete_pid of server.py (lines 222-228): the lock file is unlinked when
\* it exists, whoever created it.
DeletePid ==
    /\ pid_file' = NoFile
    /\ UNCHANGED <<meta, origin, clock, faults, dryrun, wait, slack_token, rconf, children,
                   observed>>
    /\ UNCHANGED procvars
    /\ UNCHANGED <<planvars, runnervars, sidevars>>

\* killsync of server.py (lines 198-211): the process whose pid the lock
\* file records is sent SIGTERM, which ends it on the spot (nightlies.py
\* installs no handler), and the lock file is unlinked when it exists.  A
\* lock file without a record fails the request inside load_pid().
KillSync ==
    /\ LoadPid(pid_file) # "JSONDecodeError"
    /\ pc' = [q \in Procs |->
                IF LoadPid(pid_file) = "loaded" /\ pid_file.rec.pid = q /\ pc[q] \in Alive
                THEN "killed" ELSE pc[q]]
    /\ pid_file' = NoFile
    /\ UNCHANGED <<meta, origin, clock, faults, dryrun, wait, slack_token, rconf, children,
                   observed>>
    /\ UNCHANGED <<data, ri, ji, plan, rrunnable, bconfig, fatalerror, info, posts, synced,
                   spawn, waited, postcalls>>
    /\ UNCHANGED <<planvars, runnervars, sidevars>>

\* The coordinator before any run() has started, for the study of the
\* dashboard: a dry-run configuration without notifications whose commands
\* all succeed.
ServerInit ==
    /\ pid_file = NoFile
    /\ meta = [j \in Jobs |-> NoMetadata]
    /\ children = {}
    /\ observed = ""
    /\ origin = [j \in Jobs |-> 0]
    /\ clock = 1
    /\ faults = MaxFaults
    /\ dryrun = TRUE
    /\ wait \in BOOLEAN
    /\ slack_token = [r \in RepoNames |-> FALSE]
    /\ rconf = [r \in RepoNames |-> NoBadges]
    /\ pc = [p \in Procs |-> "start"]
    /\ data = [p \in Procs |-> NoData]
    /\ ri = [p \in Procs |-> 0]
    /\ ji = [p \in Procs |-> 0]
    /\ plan = [p \in Procs |-> <<>>]
    /\ rrunnable = [p \in Procs |-> FreshRunnable]
    /\ bconfig = [p \in Procs |-> FreshConfig]
    /\ fatalerror = [p \in Procs |-> FreshError]
    /\ info = [p \in Procs |-> FreshInfo]
    /\ posts = [p \in Procs |-> <<>>]
    /\ synced = [p \in Procs |-> FreshError]
    /\ spawn = [p \in Procs |-> ""]
    /\ waited = [p \in Procs |-> FreshInfo]
    /\ postcalls = [p \in Procs |-> FreshCalls]
    /\ PlanIdle
    /\ RunnerIdle
    /\ SideIdle

ServerNext == Next \/ DeletePid \/ KillSync

SpecServer == ServerInit /\ [][ServerNext]_vars

\* C33: with the dashboard's kill-sync and delete-lock requests interleaved,
\* at most one coordinator is between acquiring the lock and releasing it,
\* and a coordinator about to unlink the lock file finds its own record in it.
C33_ExclusiveWithDashboard ==
    /\ Cardinality(Holders) <= 1
    /\ \A p \in Procs :
          (pc[p] = "finishing" /\ pid_file.written) => pid_file.rec.pid = p

\* ------------------------------------------------------------ polling
\* The coordinator with fairly scheduled pollers: a round of the polling
\* loop is taken every 15 minutes (line 228), so a poller whose try_lock
\* would succeed from some point on eventually calls it.
SpecPoll == Init /\ [][Next]_vars /\ \A p \in Procs : WF_vars(LockPoll(p))

\* C34: with wait enabled a run() never returns without the lock, a polling
\* run() leaves the polling loop only by acquiring the lock, and a poller
\* acquires the lock once the holder has finished its cycle, which ends
\* with the unlink of the lock file.
C34_PollingAcquires ==
    /\ [](\A p \in Procs : wait => pc[p] # "nolock")
    /\ [][\A p \in Procs : pc[p] = "polling" => pc'[p] \in {"polling", "locked"}]_vars
    /\ \A p \in Procs : (pc[p] = "polling" /\ ~pid_file.exists) ~> (pc[p] \in Holding)

\* C34 witness: a run() is polling after the holder has finished its cycle
\* and removed the lock file.
C34_Witness ==
    \E p, q \in Procs : pc[p] = "polling" /\ pc[q] = "done" /\ ~pid_file.exists /\ wait

\* ------------------------------------------------------------ never under run-all
\* C35: no branch marked never is in the plan of any cycle, a cycle whose
\* repository is flagged run-all after a package update included.
C35_NeverExcludedUnderRunAll ==
    planpc = "done" => \A b \in BranchSet : HasBadge(b, "never") => ~InSeq(b, runnable)

\* ------------------------------------------------------------ no duplicates
\* C40: the plan never holds a branch twice, whatever the candidates and
\* the badges are and whether or not the repository is flagged run-all.
C40_NoDuplicates ==
    planpc = "done" => \A b \in BranchSet : Occurrences(b) <= 1

\* C40 witness: a changed branch marked always and baseline is in a plan
\* with another branch.
C40_Witness ==
    /\ PlanDone
    /\ Len(runnable) >= 2
    /\ \E b \in BranchSet :
          /\ HasBadge(b, "always") /\ HasBadge(b, "baseline") /\ ~HasBadge(b, "never")
          /\ Changed(b)
          /\ InSeq(b, runnable)

\* ------------------------------------------------------------ one post per run
\* C39: once the job runner has posted the normal result of a run, that
\* notification stays the only one: a termination signal after it adds no
\* killed post.
C39_AtMostOnePost ==
    (slack_posts # <<>> /\ slack_posts[1].result # "*killed*") => Len(slack_posts) = 1

\* ------------------------------------------------------------ results reported
\* The result of job j of process p is in one of p's notifications.
ResultPosted(p, j) ==
    \E i \in 1..Len(posts[p]) :
        /\ posts[p][i].repo = j[1]
        /\ \E k \in 1..Len(posts[p][i].runs) : posts[p][i].runs[k] = <<j[2], info[p][j]>>

\* C38: outside dry-run, once post has been called for a repository with
\* notifications configured after its last job, the result of every job of
\* the repository that ran to completion is in a notification, also when
\* another of its jobs raised an external-command error.
C38_CompletedJobsReported ==
    \A p \in Procs : \A r \in RepoNames :
        (slack_token[r] /\ ~dryrun /\ JobIndexes(p, r) # {} /\ postcalls[p][r] = 1) =>
            \A k \in JobIndexes(p, r) : info[p][plan[p][k]] # "" => ResultPosted(p, plan[p][k])

\* ------------------------------------------------------------ dry-run
\* C36: in dry-run a cycle starts no job process and publishes no report,
\* and none of its steps changes a report directory or the commit and the
\* time a metadata file stores, so the next cycle finds the same change
\* candidates.
C36_DryRunFrame ==
    /\ [](job_dry => spawned = {} /\ reports_pub = {})
    /\ [][job_dry =>
            /\ wt_report' = wt_report
            /\ \A k \in JobNumbers : ReadMetadata(job_meta'[k]) = ReadMetadata(job_meta[k])]_vars

\* C36 witness: a dry-run cycle has gone through both jobs while the report
\* directories held the files of an earlier run and the metadata a commit.
C36_Witness ==
    /\ job_dry
    /\ job_pc = "done"
    /\ \A k \in JobNumbers :
          wt_report[k] = "files" /\ ReadMetadata(job_meta[k]).commit # 0
                                 /\ binfo[k].result = "success"

\* ------------------------------------------------------------ warnings map
\* C37: when the repository's notification is built after its last job,
\* every warning raised for one of its branches during the cycle is in the
\* warnings map, with the message it was raised with.
C37_WarningsKept ==
    job_pc = "done" =>
        \A w \in warned : repo_warnings[w[1]] = JobBranches[w[2]]

====
